---- MODULE Spec2Model ----
(***************************************************************************)
(* State-machine model of the NMB game engine (server/game_logic):         *)
(* the Game orchestrator, the action pipeline (execute_action and its      *)
(* handlers), the Board, the Player model and the Deck.                    *)
(*                                                                         *)
(* Every action of the model is one call of a public operation, run to     *)
(* completion (the engine is single-threaded per session).  The value a    *)
(* call returns is kept in the variable "result".  A Python exception      *)
(* raised inside a handler is modelled at the statement that raises it:    *)
(* the assignments made before that statement are kept, and                *)
(* execute_action turns the exception into the "Internal error" result.    *)
(***************************************************************************)
EXTENDS Integers, Sequences, FiniteSets, TLC

(***************************************************************************)
(* Program constants (server/game_logic/constants.py)                      *)
(***************************************************************************)
MIN_PLAYERS == 2
MAX_PLAYERS == 4
BOARD_SIZE_X == 5
BOARD_SIZE_Y == 5
FLOOR_LOW == 1
FLOOR_HIGH == 5
STARTING_FLOOR == 2
INITIAL_FLOOR == 2
INITIAL_POSITION_X == 2
INITIAL_POSITION_Y == 2
INITIAL_DISORDER == 0
MAX_DISORDER == 10
DISORDER_FALL_THRESHOLD == 6
MUTATION_THRESHOLD == 50
END_GAME_THRESHOLD == 100
ESCAPE_FLOOR == 5
MOVEMENT_DIE == 6
MAX_ITEM_SLOTS == 6
HAND_SIZE_LIMIT == 7
STARTING_HAND == 3
ESCAPE_ITEMS_REQUIRED == 3
EXPERIMENT_REPORTS_REQUIRED == 7
MEET_DISORDER_RANGE == 2
MEET_DISORDER_REDUCTION == 1
ROB_DISORDER_PENALTY == 1
TILE_SIDE == 4
\* MAP_CORRUPTION_LIMIT = 0.70, kept as a percentage
MAP_CORRUPTION_LIMIT_PCT == 70

(***************************************************************************)
(* Bounds of the model                                                     *)
(***************************************************************************)
\* number of distinct connections (socket ids) that may ever join
MaxSockets == 2
\* connections in the sessions that study the roster
MaxRosterSockets == 3
\* end_turn is not taken once turn_number has reached this value
MaxTurn == 2
\* highest movement roll explored in the general session
MaxRoll == 2
\* cards of the effect deck beyond the starting hands
ExtraEffectCards == 2

Sockets == 1..MaxSockets
NoSocket == 0

(***************************************************************************)
(* Small helpers                                                           *)
(***************************************************************************)
Abs(n) == IF n < 0 THEN -n ELSE n
Max(a, b) == IF a > b THEN a ELSE b
Min(a, b) == IF a < b THEN a ELSE b
Range(s) == {s[i] : i \in DOMAIN s}
RemoveAt(s, i) == [j \in 1..(Len(s) - 1) |-> IF j < i THEN s[j] ELSE s[j + 1]]
IndexOf(s, e) == CHOOSE i \in DOMAIN s : s[i] = e /\ \A j \in 1..(i - 1) : s[j] # e

(***************************************************************************)
(* Positions (board.py: TilePosition, Position)                            *)
(***************************************************************************)
\* a tile slot is <<x, y, floor>>
InBoard(x, y) == 0 <= x /\ x < BOARD_SIZE_X /\ 0 <= y /\ y < BOARD_SIZE_Y
ValidFloor(f) == FLOOR_LOW <= f /\ f <= FLOOR_HIGH
ValidTilePosition(slot) == InBoard(slot[1], slot[2]) /\ ValidFloor(slot[3])

\* Position.__post_init__: the bounds under which a Position can be built
ValidPosition(p) ==
    /\ InBoard(p.tile_x, p.tile_y)
    /\ 0 <= p.sub_x /\ p.sub_x < TILE_SIDE
    /\ 0 <= p.sub_y /\ p.sub_y < TILE_SIDE
    /\ ValidFloor(p.floor)

Pos(tx, ty, sx, sy, f) ==
    [tile_x |-> tx, tile_y |-> ty, sub_x |-> sx, sub_y |-> sy, floor |-> f]
\* player.position = None
NoPosition == Pos(-1, -1, -1, -1, -1)

\* Position.get_tile_position
TileSlotOf(p) == <<p.tile_x, p.tile_y, p.floor>>
\* Position.to_absolute_coords
AbsX(p) == p.tile_x * TILE_SIDE + p.sub_x
AbsY(p) == p.tile_y * TILE_SIDE + p.sub_y

\* TilePosition.get_adjacent_positions(include_current_floor_only=True):
\* every dx, dy in -1..1 except (0,0), kept when inside the board
AdjacentTilePositions(slot) ==
    {s \in {<<slot[1] + dx, slot[2] + dy, slot[3]>> : dx \in -1..1, dy \in -1..1} :
        s # slot /\ InBoard(s[1], s[2])}

(***************************************************************************)
(* Cards (cards.py).  A card is identified by a number; its kind and, for  *)
(* a path tile, its layout are fixed when the deck is created.             *)
(*   path cards, by id modulo 6:                                           *)
(*     1 basic with an event square at (1,1)   2 disordered (two walls)    *)
(*     3 basic with an item square at (1,1)    4 stairwell                 *)
(*     5 elevator                              0 basic, all normal         *)
(*   effect cards, by id modulo 3:  1 item   2 event   0 anomaly           *)
(***************************************************************************)
INITIAL_TILE_ID == 0

PathCardType(id) ==
    IF id = INITIAL_TILE_ID THEN "initial"
    ELSE CASE id % 6 = 2 -> "disordered"
           [] id % 6 = 4 -> "stairwell"
           [] id % 6 = 5 -> "elevator"
           [] OTHER -> "basic"

\* PathTileCard._generate_default_layout: the walls of the card's layout
CardWalls(id) ==
    IF PathCardType(id) = "disordered" THEN {<<0, 0>>, <<2, 1>>} ELSE {}

\* the special square the layout holds at local position (1,1)
CardCentreSquare(id) ==
    CASE id = INITIAL_TILE_ID -> "normal"
      [] id % 6 = 1 -> "event_square"
      [] id % 6 = 3 -> "item_square"
      [] id % 6 = 4 -> "stairwell"
      [] id % 6 = 5 -> "elevator_room"
      [] OTHER -> "normal"

EffectCardType(id) ==
    CASE id % 3 = 1 -> "item"
      [] id % 3 = 2 -> "event"
      [] OTHER -> "anomaly"

Cells == (0..(TILE_SIDE - 1)) \X (0..(TILE_SIDE - 1))

\* PathTile._generate_movable_positions: every square that is not a wall
\* (the corners when nothing else is movable)
MovablePositions(id) ==
    IF Cells \ CardWalls(id) = {}
    THEN {<<0, 0>>, <<0, 3>>, <<3, 0>>, <<3, 3>>}
    ELSE Cells \ CardWalls(id)

\* PathTile.get_entrance_points, in the order the code builds the list:
\* x = 0..3 with y in (0, 3), then y = 1..2 with x in (0, 3)
EntranceOrder ==
    << <<0, 0>>, <<0, 3>>, <<1, 0>>, <<1, 3>>, <<2, 0>>, <<2, 3>>, <<3, 0>>, <<3, 3>>,
       <<0, 1>>, <<3, 1>>, <<0, 2>>, <<3, 2>> >>

\* the first square of the scan, movable or not
CornerEntrance(id) == EntranceOrder[1]

\* entrance_points[0]; (1,1) when no edge square is movable (walls are at most
\* four squares, so some edge square always is)
FirstEntrancePoint(id) ==
    LET edge == {i \in DOMAIN EntranceOrder : EntranceOrder[i] \in MovablePositions(id)}
    IN  IF edge = {} THEN <<1, 1>>
        ELSE EntranceOrder[CHOOSE i \in edge : \A j \in edge : i <= j]

(***************************************************************************)
(* Deck (cards.py: Deck): cards is the draw pile, discarded the discard    *)
(* pile, both lists of card ids                                            *)
(***************************************************************************)
NoCard == -1

\* Deck.draw: recycle the discard pile when the draw pile is empty (the
\* shuffle of the recycled pile is the choice of "order"), then pop the front
DrawOrders(d) ==
    IF d.cards # <<>> THEN {d.cards}
    ELSE {o \in [1..Len(d.discarded) -> Range(d.discarded)] :
            \A c \in Range(d.discarded) : \E i \in DOMAIN o : o[i] = c}

\* a draw that never turns to the discard pile
DeckNotRecycled(d, order) == d

DeckAfterRecycle(d, order) ==
    IF d.cards # <<>> THEN d ELSE [cards |-> order, discarded |-> <<>>]

DrawnCard(d, order) ==
    IF DeckAfterRecycle(d, order).cards = <<>> THEN NoCard
    ELSE Head(DeckAfterRecycle(d, order).cards)

DeckAfterDraw(d, order) ==
    IF DeckAfterRecycle(d, order).cards = <<>> THEN d
    ELSE [DeckAfterRecycle(d, order) EXCEPT !.cards = Tail(@)]

\* Deck.discard
DeckDiscard(d, card) == [d EXCEPT !.discarded = Append(@, card)]
\* Deck.add_card: the card goes to the end of the draw pile
DeckAddCard(d, card) == [d EXCEPT !.cards = Append(@, card)]

(***************************************************************************)
(* Board (board.py: Board).  A board is a record:                          *)
(*   floors            occupied slot <<x, y, floor>> -> tile               *)
(*   zone_assignments  (x, y) -> zone letter                               *)
(*   corrupted_tiles   set of tile ids                                     *)
(*   stairwells, elevators   slots indexed by _update_special_locations    *)
(*   escape_exits      set of slots                                        *)
(***************************************************************************)
ZONES == {"A", "B", "C", "D", "E", "F", "G", "H"}

\* PathTile: zone is set by place_tile; is_corrupted and is_removed are the
\* dataclass defaults, which no operation on a placed tile changes
Tile(id, zone) ==
    [tile_id |-> id, tile_type |-> PathCardType(id), zone |-> zone,
     is_corrupted |-> FALSE, is_removed |-> FALSE]

\* Board.get_tile_at_tile_pos
HasTile(b, slot) == slot \in DOMAIN b.floors

\* Board._has_adjacent_tile with a TilePosition
HasAdjacentTile(b, slot) ==
    \E a \in AdjacentTilePositions(slot) : HasTile(b, a)

\* Board.place_tile: the two checks that make it return False
CanPlaceTile(b, type, slot) ==
    /\ ~HasTile(b, slot)
    /\ (type # "initial" => HasAdjacentTile(b, slot))

\* _assign_zone that draws the zone among all of them
AnyZone(b, slot) == ZONES

\* Board._assign_zone: the zones random.choice may return for a slot
ZoneChoices(b, slot) ==
    LET key == <<slot[1], slot[2]>>
        adjacent_zones ==
            {b.zone_assignments[<<a[1], a[2]>>] :
                a \in {n \in AdjacentTilePositions(slot) :
                         <<n[1], n[2]>> \in DOMAIN b.zone_assignments}}
        unassigned_zones == ZONES \ {b.zone_assignments[k] : k \in DOMAIN b.zone_assignments}
    IN  IF key \in DOMAIN b.zone_assignments THEN {b.zone_assignments[key]}
        ELSE IF adjacent_zones # {} THEN adjacent_zones
        ELSE IF unassigned_zones # {} THEN unassigned_zones
        ELSE ZONES

\* Board.place_tile after its checks: store the tile, assign its zone, index it
PlaceTile(b, id, slot, zone) ==
    LET key == <<slot[1], slot[2]>>
    IN  [b EXCEPT
           !.floors = [s \in DOMAIN b.floors \cup {slot} |->
                          IF s = slot THEN Tile(id, zone) ELSE b.floors[s]],
           !.zone_assignments = [k \in DOMAIN b.zone_assignments \cup {key} |->
                          IF k = key THEN zone ELSE b.zone_assignments[k]],
           !.stairwells = IF PathCardType(id) = "stairwell" THEN @ \cup {slot} ELSE @,
           !.elevators = IF PathCardType(id) = "elevator" THEN @ \cup {slot} ELSE @]

\* Board.is_position_movable
IsPositionMovable(b, p) ==
    /\ HasTile(b, TileSlotOf(p))
    /\ ~b.floors[TileSlotOf(p)].is_corrupted
    /\ ~b.floors[TileSlotOf(p)].is_removed
    /\ <<p.sub_x, p.sub_y>> \in MovablePositions(b.floors[TileSlotOf(p)].tile_id)

\* a board given up for lost once half of its tiles are corrupted
LostAtHalfCorruption(b) ==
    /\ Cardinality(DOMAIN b.floors) > 0
    /\ 2 * Cardinality(b.corrupted_tiles) >= Cardinality(DOMAIN b.floors)

\* Board.get_corruption_percentage >= MAP_CORRUPTION_LIMIT, in integers:
\* corrupted / total >= 0.70 (the percentage is 0.0 when there is no tile)
IsGameLostToCorruption(b) ==
    /\ Cardinality(DOMAIN b.floors) > 0
    /\ 100 * Cardinality(b.corrupted_tiles)
          >= MAP_CORRUPTION_LIMIT_PCT * Cardinality(DOMAIN b.floors)

InitialSlot == <<INITIAL_POSITION_X, INITIAL_POSITION_Y, STARTING_FLOOR>>

\* Board.__init__ and _create_initial_tile
NewBoard ==
    [floors |-> [s \in {InitialSlot} |-> Tile(INITIAL_TILE_ID, "B")],
     zone_assignments |-> [k \in {<<INITIAL_POSITION_X, INITIAL_POSITION_Y>>} |-> "B"],
     corrupted_tiles |-> {},
     stairwells |-> {},
     elevators |-> {},
     escape_exits |-> {}]

(***************************************************************************)
(* Player (player.py: Player, PlayerInventory)                             *)
(***************************************************************************)
\* Player.__init__
NewPlayer ==
    [disorder |-> INITIAL_DISORDER, floor |-> INITIAL_FLOOR, position |-> NoPosition,
     movement_points |-> 0, movement_used |-> 0, turn_active |-> FALSE,
     hand |-> {}, items |-> {}, is_connected |-> TRUE,
     escape_items_collected |-> 0, experiment_reports_collected |-> 0]

\* update_disorder without the clamp
DisorderUnclamped(pl, change) == [pl EXCEPT !.disorder = pl.disorder + change]

\* Player.update_disorder
UpdateDisorder(pl, change) ==
    [pl EXCEPT !.disorder = Max(0, Min(MAX_DISORDER, pl.disorder + change))]

\* Player.get_remaining_movement
RemainingMovement(pl) == pl.movement_points - pl.movement_used

\* use_movement_points without the comparison with the granted points
UseWithoutLimit(pl, points) == [pl EXCEPT !.movement_used = @ + points]

\* Player.use_movement_points
UseMovementPoints(pl, points) ==
    IF pl.movement_used + points <= pl.movement_points
    THEN [pl EXCEPT !.movement_used = @ + points]
    ELSE pl

\* Player.start_turn
StartTurn(pl) ==
    [pl EXCEPT !.turn_active = TRUE, !.movement_points = 0, !.movement_used = 0]

\* Player.end_turn that leaves the player as it was
TurnLeftActive(pl) == pl

\* Player.end_turn
EndTurnOf(pl) ==
    [pl EXCEPT !.turn_active = FALSE, !.movement_points = 0, !.movement_used = 0]

\* constants.can_explore
CanExplore(disorder) == disorder < DISORDER_FALL_THRESHOLD

\* constants.get_current_phase
GetCurrentPhase(actions) ==
    IF actions >= END_GAME_THRESHOLD THEN "END_GAME"
    ELSE IF actions >= MUTATION_THRESHOLD THEN "MUTATION"
    ELSE "EXPLORATION"

(***************************************************************************)
(* State of one session (game.py: Game.__init__)                           *)
(***************************************************************************)
VARIABLES
    state,                 \* GameState: "waiting", "pawn_placement", "playing", "finished"
    current_phase,         \* GamePhase: "EXPLORATION", "MUTATION", "END_GAME"
    round_number,
    turn_number,
    total_actions,
    players,               \* socket id -> player, for the players in the roster
    player_order,          \* list of socket ids
    current_player_index,  \* index into player_order, from 0
    next_player_number,
    players_placed_pawns,
    board,
    decks,                 \* path_tile, effect, button -> deck
    victory_condition_met,
    victory_type,
    winning_players,
    defeat_reason,
    escape_exits_revealed,
    active_anomalies,      \* list of anomaly card ids
    result                 \* what the last call returned

sessionVars == <<state, current_phase, round_number, turn_number, total_actions>>
rosterVars == <<players, player_order, current_player_index, next_player_number,
                players_placed_pawns>>
outcomeVars == <<victory_condition_met, victory_type, winning_players, defeat_reason,
                 escape_exits_revealed, active_anomalies>>
vars == <<sessionVars, rosterVars, board, decks, outcomeVars, result>>

\* the return value of a call: the operation, who called it, the success flag
\* and the reason given on failure
Result(op, actor, success, reason) ==
    [op |-> op, actor |-> actor, success |-> success, reason |-> reason]

Roster == DOMAIN players

\* Game.get_current_player, as a socket id (NoSocket for None)
GetCurrentPlayer ==
    IF player_order = <<>> \/ state \notin {"pawn_placement", "playing"} THEN NoSocket
    ELSE IF player_order[current_player_index + 1] \in Roster
         THEN player_order[current_player_index + 1]
         ELSE NoSocket

\* Game.is_player_turn
IsPlayerTurn(s) == GetCurrentPlayer # NoSocket /\ GetCurrentPlayer = s

(***************************************************************************)
(* Initial decks (cards.py: create_starting_decks), scaled down.  The      *)
(* shuffle is the choice of one of the rotations of the deck.              *)
(***************************************************************************)
\* cards in the path-tile deck
PathDeckSize == 2
\* cards in the button deck
ButtonDeckSize == 2
EffectDeckSize == STARTING_HAND * MaxRosterSockets + ExtraEffectCards

Rotation(n, k) == [i \in 1..n |-> ((i + k - 1) % n) + 1]
\* orders of a shuffled deck that are explored
ShuffleChoices == 1
Shuffles(n) == {Rotation(n, k) : k \in 0..(Min(n, ShuffleChoices) - 1)}
NewDeck(order) == [cards |-> order, discarded |-> <<>>]

InitSession ==
    /\ state = "waiting"
    /\ current_phase = "EXPLORATION"
    /\ round_number = 0
    /\ turn_number = 0
    /\ total_actions = 0
    /\ players = << >>
    /\ player_order = << >>
    /\ current_player_index = 0
    /\ next_player_number = 1
    /\ players_placed_pawns = {}
    /\ board = NewBoard
    /\ victory_condition_met = FALSE
    /\ victory_type = "none"
    /\ winning_players = {}
    /\ defeat_reason = "none"
    /\ escape_exits_revealed = FALSE
    /\ active_anomalies = << >>
    /\ result = Result("game_created", NoSocket, TRUE, "")

Init ==
    /\ InitSession
    /\ \E po \in Shuffles(PathDeckSize) :
         decks = [path_tile |-> NewDeck(po),
                  effect |-> NewDeck(Rotation(EffectDeckSize, 0)),
                  button |-> NewDeck(Rotation(ButtonDeckSize, 0))]

(***************************************************************************)
(* Game: player management (game.py)                                       *)
(***************************************************************************)
\* Game.add_player.  A connection joins under the next unused socket id.
AddPlayer ==
    /\ IF Cardinality(Roster) >= MAX_PLAYERS \/ state # "waiting"
       THEN /\ result' = Result("add_player", next_player_number, FALSE, "")
            /\ UNCHANGED <<sessionVars, rosterVars, board, decks, outcomeVars>>
       ELSE /\ players' = [s \in Roster \cup {next_player_number} |->
                              IF s = next_player_number THEN NewPlayer ELSE players[s]]
            /\ next_player_number' = next_player_number + 1
            /\ result' = Result("add_player", next_player_number, TRUE, "")
            /\ UNCHANGED <<sessionVars, player_order, current_player_index,
                           players_placed_pawns, board, decks, outcomeVars>>

\* remove_player without the index adjustment
IndexLeftAsItWas(index, old_index) == index

\* Game.remove_player: the index adjustment after the player left player_order
IndexAfterRemoval(index, old_index) ==
    IF index >= old_index /\ index > 0 THEN index - 1 ELSE index

\* Game.remove_player
RemovePlayer(s) ==
    IF s \notin Roster
    THEN /\ result' = Result("remove_player", s, FALSE, "")
         /\ UNCHANGED <<sessionVars, rosterVars, board, decks, outcomeVars>>
    ELSE /\ players' = [q \in Roster \ {s} |-> players[q]]
         /\ IF s \in Range(player_order)
            THEN /\ player_order' = RemoveAt(player_order, IndexOf(player_order, s))
                 /\ current_player_index' =
                        IndexAfterRemoval(current_player_index, IndexOf(player_order, s) - 1)
            ELSE UNCHANGED <<player_order, current_player_index>>
         /\ IF Roster \ {s} = {}
            THEN /\ state' = "finished"
                 /\ defeat_reason' = "All players left"
            ELSE UNCHANGED <<state, defeat_reason>>
         /\ result' = Result("remove_player", s, TRUE, "")
         /\ UNCHANGED <<current_phase, round_number, turn_number, total_actions,
                        next_player_number, players_placed_pawns, board, decks,
                        victory_condition_met, victory_type, winning_players,
                        escape_exits_revealed, active_anomalies>>

(***************************************************************************)
(* Game: turns (game.py)                                                   *)
(***************************************************************************)
DieFaces == 1..MOVEMENT_DIE

\* Game._start_next_turn on the roster ps, for the current player cur in
\* session state st: end every active turn, start cur's turn and, outside
\* pawn placement, give it the movement roll
StartNextTurn(ps, cur, st, roll) ==
    IF cur = NoSocket THEN ps
    ELSE [q \in DOMAIN ps |->
            LET ended == IF ps[q].turn_active THEN EndTurnOf(ps[q]) ELSE ps[q]
            IN  IF q # cur THEN ended
                ELSE IF st = "pawn_placement" THEN StartTurn(ended)
                ELSE [StartTurn(ended) EXCEPT !.movement_points = roll]]

\* the socket at an index of an order, NoSocket when it left the roster
PlayerAt(order, index, ps) ==
    IF order[index + 1] \in DOMAIN ps THEN order[index + 1] ELSE NoSocket

\* the orders sorted(rolls) can give: every arrangement of the roster
Orders(roster) ==
    {o \in [1..Cardinality(roster) -> roster] : \A q \in roster : \E i \in DOMAIN o : o[i] = q}

\* rank of a player in the iteration order of the players dict (join order)
DictRank(q) == Cardinality({r \in Roster : r < q})

\* Game._deal_starting_hand for every player: three draws each, in dict order
DealtHand(q) ==
    {decks.effect.cards[i] :
        i \in {j \in DOMAIN decks.effect.cards :
                 /\ j > STARTING_HAND * DictRank(q)
                 /\ j <= STARTING_HAND * (DictRank(q) + 1)}}

\* a start that asks for one player only
OnePlayerEnough(n) == n >= 1
\* start_game: len(self.players) < MIN_PLAYERS is refused
EnoughPlayers(n) == n >= MIN_PLAYERS

\* Game.start_game
StartGame ==
    IF state # "waiting"
    THEN /\ result' = Result("start_game", NoSocket, FALSE, "Game is not in waiting state")
         /\ UNCHANGED <<sessionVars, rosterVars, board, decks, outcomeVars>>
    ELSE IF ~EnoughPlayers(Cardinality(Roster))
    THEN /\ result' = Result("start_game", NoSocket, FALSE, "Need more players")
         /\ UNCHANGED <<sessionVars, rosterVars, board, decks, outcomeVars>>
    ELSE \E order \in Orders(Roster) :
         /\ player_order' = order
         /\ state' = "pawn_placement"
         /\ round_number' = 0
         /\ turn_number' = 1
         /\ current_phase' = "EXPLORATION"
         /\ decks' = [decks EXCEPT !.effect.cards =
                        SubSeq(@, Min(Len(@), STARTING_HAND * Cardinality(Roster)) + 1, Len(@))]
         /\ players' = StartNextTurn(
                          [q \in Roster |-> [players[q] EXCEPT !.hand = DealtHand(q)]],
                          PlayerAt(order, current_player_index, players),
                          "pawn_placement", 0)
         /\ result' = Result("start_game", NoSocket, TRUE, "")
         /\ UNCHANGED <<total_actions, current_player_index, next_player_number,
                        players_placed_pawns, board, outcomeVars>>

\* targets a client may send with a pawn placement: two squares of the
\* initial tile and one square of a neighbouring slot
PawnTargets ==
    {Pos(INITIAL_POSITION_X, INITIAL_POSITION_Y, 1, 1, INITIAL_FLOOR),
     Pos(INITIAL_POSITION_X, INITIAL_POSITION_Y, 1, 2, INITIAL_FLOOR),
     Pos(INITIAL_POSITION_X + 1, INITIAL_POSITION_Y, 0, 0, INITIAL_FLOOR)}

\* place_player_pawn without the test of the occupied square
NeverOccupied(s, target) == FALSE

\* place_player_pawn: "position already occupied by another player"
OccupiedByOther(s, target) ==
    \E q \in Roster \ {s} :
        /\ players[q].position # NoPosition
        /\ players[q].position.tile_x = target.tile_x
        /\ players[q].position.tile_y = target.tile_y
        /\ players[q].position.sub_x = target.sub_x
        /\ players[q].position.sub_y = target.sub_y
        /\ players[q].floor = target.floor

\* Game.place_player_pawn: the reason it is refused, "" when it is accepted
PawnPlacementRefusal(s, target) ==
    IF state # "pawn_placement" THEN "Not in pawn placement phase"
    ELSE IF s \notin Roster THEN "Player not found"
    ELSE IF ~IsPlayerTurn(s) THEN "Not your turn"
    ELSE IF s \in players_placed_pawns THEN "You have already placed your pawn"
    ELSE IF TileSlotOf(target) # InitialSlot THEN "Can only place pawn on the starting tile"
    ELSE IF ~IsPositionMovable(board, target)
         THEN "Cannot place pawn on walls or blocked areas"
    ELSE IF OccupiedByOther(s, target) THEN "Position already occupied by another player"
    ELSE ""

\* Game._advance_pawn_placement_turn: all pawns placed?
AllPawnsPlaced(placed, ps) == Cardinality(placed) >= Cardinality(DOMAIN ps)

\* Game.place_player_pawn, with _advance_pawn_placement_turn and
\* _transition_to_normal_gameplay
PlacePlayerPawn(s, target) ==
    IF PawnPlacementRefusal(s, target) # ""
    THEN /\ result' = Result("place_pawn", s, FALSE, PawnPlacementRefusal(s, target))
         /\ UNCHANGED <<sessionVars, rosterVars, board, decks, outcomeVars>>
    ELSE LET placed == [players EXCEPT ![s].position = target, ![s].floor = target.floor]
             now_placed == players_placed_pawns \cup {s}
             next_index == (current_player_index + 1) % Len(player_order)
         IN  /\ IF AllPawnsPlaced(now_placed, players)
                THEN \E roll \in DieFaces :
                     /\ state' = "playing"
                     /\ round_number' = 1
                     /\ turn_number' = 1
                     /\ current_player_index' = 0
                     /\ players' = StartNextTurn(placed, PlayerAt(player_order, 0, placed),
                                                 "playing", roll)
                     /\ players_placed_pawns' = {}
                ELSE /\ current_player_index' = next_index
                     /\ turn_number' = turn_number + 1
                     /\ players' = StartNextTurn(placed,
                                                 PlayerAt(player_order, next_index, placed),
                                                 "pawn_placement", 0)
                     /\ players_placed_pawns' = now_placed
                     /\ UNCHANGED <<state, round_number>>
             /\ result' = Result("place_pawn", s, TRUE, "")
             /\ UNCHANGED <<current_phase, total_actions, player_order, next_player_number,
                            board, decks, outcomeVars>>

(***************************************************************************)
(* Action pipeline (actions.py)                                            *)
(***************************************************************************)
InternalError == "Internal error"

\* validate_action: the reason an action is refused, "" when it is admitted
ValidateAction(s, action_type) ==
    IF s \notin Roster THEN "Player not found"
    ELSE IF state # "playing" THEN "Game is not in playing state"
    ELSE IF ~IsPlayerTurn(s) THEN "Not your turn"
    ELSE IF action_type = "explore" /\ ~CanExplore(players[s].disorder)
         THEN "Disorder too high, must Fall"
    ELSE IF action_type = "explore" /\ RemainingMovement(players[s]) <= 0
         THEN "No movement points remaining"
    ELSE IF action_type = "fall" /\ CanExplore(players[s].disorder)
         THEN "Disorder too low, can Explore"
    ELSE IF action_type = "fall" /\ players[s].floor <= 1 THEN "Already on bottom floor"
    ELSE IF action_type = "move" /\ RemainingMovement(players[s]) <= 0
         THEN "No movement points remaining"
    ELSE ""

\* a failed call that changed nothing
Refuse(op, s, reason) ==
    /\ result' = Result(op, s, FALSE, reason)
    /\ UNCHANGED <<sessionVars, rosterVars, board, decks, outcomeVars>>

\* _handle_tile_effects(trigger = "movement_end"): the square looked up is
\* always local position (1,1) of the tile; order is the shuffle of a recycled
\* effect deck
HandleTileEffects(ps, dk, s, tile_id, order) ==
    LET square == CardCentreSquare(tile_id)
        card == DrawnCard(dk.effect, order)
        drawn == [dk EXCEPT !.effect = DeckAfterDraw(dk.effect, order)]
    IN  IF square = "event_square"
        THEN IF card # NoCard /\ EffectCardType(card) = "event"
             THEN [players |-> ps, decks |-> [drawn EXCEPT !.effect = DeckDiscard(@, card)]]
             ELSE [players |-> ps, decks |-> drawn]
        ELSE IF square = "item_square"
        THEN IF card # NoCard /\ EffectCardType(card) = "item"
             THEN IF Cardinality(ps[s].items) < MAX_ITEM_SLOTS
                  THEN [players |-> [ps EXCEPT ![s].items = @ \cup {card}], decks |-> drawn]
                  ELSE [players |-> ps,
                        decks |-> [drawn EXCEPT !.effect = DeckAddCard(@, card)]]
             ELSE [players |-> ps, decks |-> drawn]
        ELSE [players |-> ps, decks |-> dk]

\* a cost that counts the columns only
CostAlongX(from, to) == Abs(AbsX(to) - AbsX(from))

\* the cost action_move charges: Manhattan distance in absolute coordinates
MovementCost(from, to) == Abs(AbsX(to) - AbsX(from)) + Abs(AbsY(to) - AbsY(from))

\* action_move: the reason it is refused before anything changes
MoveRefusal(s, target) ==
    IF ValidateAction(s, "move") # "" THEN ValidateAction(s, "move")
    ELSE IF ~IsPositionMovable(board, target) THEN "Target position is not movable"
    ELSE IF players[s].position = NoPosition THEN InternalError
    ELSE IF MovementCost(players[s].position, target) = 0 THEN "Already at target position"
    ELSE IF MovementCost(players[s].position, target) > RemainingMovement(players[s])
         THEN "Not enough movement points"
    ELSE ""

\* action_move
ExecMove(s, target) ==
    IF MoveRefusal(s, target) # ""
    THEN Refuse("move", s, MoveRefusal(s, target))
    ELSE \E order \in DrawOrders(decks.effect) :
         LET moved == [players EXCEPT
                         ![s] = [UseMovementPoints(@, MovementCost(@.position, target))
                                    EXCEPT !.position = target, !.floor = target.floor]]
             after == HandleTileEffects(moved, decks, s,
                                        board.floors[TileSlotOf(target)].tile_id, order)
         IN  /\ players' = after.players
             /\ decks' = after.decks
             /\ total_actions' = total_actions + 1
             /\ result' = Result("move", s, TRUE, "")
             /\ UNCHANGED <<state, current_phase, round_number, turn_number, player_order,
                            current_player_index, next_player_number, players_placed_pawns,
                            board, outcomeVars>>

\* action_explore without a placement position: the first free slot East,
\* West, South, North of the player's tile; NoSlot when there is none
NoSlot == <<-1, -1, -1>>
\* the scan started from the North
OffsetsNorthFirst == << <<0, -1>>, <<0, 1>>, <<-1, 0>>, <<1, 0>> >>
AdjacentOffsets == << <<1, 0>>, <<-1, 0>>, <<0, 1>>, <<0, -1>> >>
AutoPlacement(b, p) ==
    LET free == {i \in DOMAIN AdjacentOffsets :
                   /\ InBoard(p.tile_x + AdjacentOffsets[i][1], p.tile_y + AdjacentOffsets[i][2])
                   /\ ~HasTile(b, <<p.tile_x + AdjacentOffsets[i][1],
                                    p.tile_y + AdjacentOffsets[i][2], p.floor>>)}
        first == CHOOSE i \in free : \A j \in free : i <= j
    IN  IF free = {} THEN NoSlot
        ELSE <<p.tile_x + AdjacentOffsets[first][1], p.tile_y + AdjacentOffsets[first][2],
               p.floor>>

\* the slot action_explore places at: the one sent, or the automatic one
PlaceSlot(s, placement) ==
    IF placement = NoSlot THEN AutoPlacement(board, players[s].position) ELSE placement

\* action_explore: the reason it fails; a card drawn on the way is returned
\* to the end of the draw pile
ExploreRefusal(s, placement) ==
    IF ValidateAction(s, "explore") # "" THEN ValidateAction(s, "explore")
    ELSE IF placement = NoSlot /\ players[s].position = NoPosition THEN InternalError
    ELSE IF PlaceSlot(s, placement) = NoSlot
         THEN "No adjacent positions available for tile placement"
    ELSE IF decks.path_tile.cards = <<>> /\ decks.path_tile.discarded = <<>>
         THEN "No path tiles remaining"
    ELSE IF ~HasAdjacentTile(board, PlaceSlot(s, placement))
         THEN "Tile must be placed adjacent to existing tiles"
    ELSE IF HasTile(board, PlaceSlot(s, placement))
         THEN "Cannot place tile at this position"
    ELSE ""

\* the two refusals action_explore gives after it has drawn the card
ExploreFailsAfterDraw(reason) ==
    reason \in {"Tile must be placed adjacent to existing tiles",
                "Cannot place tile at this position"}

\* action_explore
ExecExplore(s, placement) ==
    IF ExploreRefusal(s, placement) # "" /\ ~ExploreFailsAfterDraw(ExploreRefusal(s, placement))
    THEN Refuse("explore", s, ExploreRefusal(s, placement))
    ELSE \E order \in DrawOrders(decks.path_tile) :
         LET card == DrawnCard(decks.path_tile, order)
             drawn == DeckAfterDraw(decks.path_tile, order)
             slot == PlaceSlot(s, placement)
             entrance == FirstEntrancePoint(card)
             raised == IF PathCardType(card) = "disordered"
                       THEN UpdateDisorder(players[s], 1) ELSE players[s]
             entered == IF RemainingMovement(raised) > 0
                        THEN [UseMovementPoints(raised, 1) EXCEPT
                                !.position = Pos(slot[1], slot[2], entrance[1], entrance[2],
                                                 slot[3]),
                                !.floor = slot[3]]
                        ELSE raised
         IN  IF ExploreRefusal(s, placement) # ""
             THEN /\ decks' = [decks EXCEPT !.path_tile = DeckAddCard(drawn, card)]
                  /\ result' = Result("explore", s, FALSE, ExploreRefusal(s, placement))
                  /\ UNCHANGED <<sessionVars, rosterVars, board, outcomeVars>>
             ELSE \E zone \in ZoneChoices(board, slot) :
                  /\ decks' = [decks EXCEPT !.path_tile = drawn]
                  /\ board' = PlaceTile(board, card, slot, zone)
                  /\ players' = [players EXCEPT ![s] = entered]
                  /\ total_actions' = total_actions + 1
                  /\ result' = Result("explore", s, TRUE, "")
                  /\ UNCHANGED <<state, current_phase, round_number, turn_number,
                                 player_order, current_player_index, next_player_number,
                                 players_placed_pawns, outcomeVars>>

\* Player.perform_fall after its floor check
PerformFall(pl) == UpdateDisorder([pl EXCEPT !.floor = pl.floor - 1], -1)

\* action_fall.  When a card is drawn, building the Position of the fall
\* (Position(player.position[0], ...)) raises: the call ends as an internal
\* error after the fall and the draw have been made.
ExecFall(s) ==
    IF ValidateAction(s, "fall") # ""
    THEN Refuse("fall", s, ValidateAction(s, "fall"))
    ELSE \E order \in DrawOrders(decks.path_tile) :
         /\ players' = [players EXCEPT ![s] = PerformFall(@)]
         /\ decks' = [decks EXCEPT !.path_tile = DeckAfterDraw(@, order)]
         /\ IF DrawnCard(decks.path_tile, order) # NoCard
            THEN /\ result' = Result("fall", s, FALSE, InternalError)
                 /\ UNCHANGED total_actions
            ELSE /\ result' = Result("fall", s, TRUE, "")
                 /\ total_actions' = total_actions + 1
         /\ UNCHANGED <<state, current_phase, round_number, turn_number, player_order,
                        current_player_index, next_player_number, players_placed_pawns,
                        board, outcomeVars>>

\* can_interact_with_player without the comparison of the disorder levels
RefusalWithoutRange(pl, other, action_type) ==
    IF pl.floor # other.floor \/ pl.position # other.position
    THEN "Players must be on the same tile"
    ELSE IF action_type = "rob" /\ other.hand = {}
    THEN "Target player has no cards to rob"
    ELSE ""

\* Player.can_interact_with_player: the reason the interaction is refused
InteractionRefusal(pl, other, action_type) ==
    IF pl.floor # other.floor \/ pl.position # other.position
    THEN "Players must be on the same tile"
    ELSE IF action_type = "meet" /\ Abs(pl.disorder - other.disorder) > MEET_DISORDER_RANGE
    THEN "Disorder levels too different"
    ELSE IF action_type = "rob" /\ other.hand = {}
    THEN "Target player has no cards to rob"
    ELSE ""

\* action_meet with Player.meet_player.  The handler reads the caller from the
\* roster without any check (KeyError for a stranger) and never looks at the
\* session state or at whose turn it is.
ExecMeet(s, t) ==
    IF s \notin Roster THEN Refuse("meet", s, InternalError)
    ELSE IF t \notin Roster THEN Refuse("meet", s, "Target player not found")
    ELSE IF InteractionRefusal(players[s], players[t], "meet") # ""
    THEN Refuse("meet", s, InteractionRefusal(players[s], players[t], "meet"))
    ELSE LET first == [players EXCEPT ![s] = UpdateDisorder(@, -MEET_DISORDER_REDUCTION)]
         IN  /\ players' = [first EXCEPT ![t] = UpdateDisorder(@, -MEET_DISORDER_REDUCTION)]
             /\ result' = Result("meet", s, TRUE, "")
             /\ UNCHANGED <<sessionVars, player_order, current_player_index,
                            next_player_number, players_placed_pawns, board, decks,
                            outcomeVars>>

\* action_rob with Player.rob_player: the stolen card is looked up under the
\* key 'id', which no card dictionary has (KeyError), before anything changes
ExecRob(s, t) ==
    IF s \notin Roster THEN Refuse("rob", s, InternalError)
    ELSE IF t \notin Roster THEN Refuse("rob", s, "Target player not found")
    ELSE IF InteractionRefusal(players[s], players[t], "rob") # ""
    THEN Refuse("rob", s, InteractionRefusal(players[s], players[t], "rob"))
    ELSE Refuse("rob", s, InternalError)

\* floors a client may ask the stairs for: one inside FLOOR_RANGE, one outside
StairTargets == {STARTING_FLOOR + 1, FLOOR_HIGH + 1}

\* action_use_stairs: past the floor check, player.position[0] raises
ExecUseStairs(s, target_floor) ==
    IF s \notin Roster THEN Refuse("use_stairs", s, InternalError)
    ELSE IF ~ValidFloor(target_floor) THEN Refuse("use_stairs", s, "Invalid target floor")
    ELSE Refuse("use_stairs", s, InternalError)

\* action_use_elevator: player.position[0] raises before anything changes
ExecUseElevator(s) == Refuse("use_elevator", s, InternalError)

\* PlayerInventory.remove_item compares the id sent with item.get('id'); the
\* dictionaries stored by add_item carry their id under 'card_id'
ItemDictId(card) == NoCard
FindItem(items, item_id) == {c \in items : ItemDictId(c) = item_id}

\* action_use_item; item_id is the card id the client sends
ExecUseItem(s, item_id) ==
    IF s \notin Roster THEN Refuse("use_item", s, InternalError)
    ELSE IF FindItem(players[s].items, item_id) = {}
    THEN Refuse("use_item", s, "Item not found in inventory")
    ELSE /\ players' = [players EXCEPT ![s].items = @ \ {CHOOSE c \in FindItem(@, item_id) : TRUE}]
         /\ result' = Result("use_item", s, TRUE, "")
         /\ UNCHANGED <<sessionVars, player_order, current_player_index,
                        next_player_number, players_placed_pawns, board, decks, outcomeVars>>

\* action_pass: reads the caller from the roster and returns success
ExecPass(s) ==
    IF s \notin Roster THEN Refuse("pass", s, InternalError)
    ELSE /\ result' = Result("pass", s, TRUE, "")
         /\ UNCHANGED <<sessionVars, rosterVars, board, decks, outcomeVars>>

(***************************************************************************)
(* Game: end of turn, rounds, phases and end conditions (game.py)          *)
(***************************************************************************)
\* spread_corruption that takes every uncorrupted tile for a candidate
EveryTileCandidate(b) ==
    {b.floors[a].tile_id :
        a \in {n \in DOMAIN b.floors : b.floors[n].tile_id \notin b.corrupted_tiles}}

\* Board.spread_corruption: the tiles next to a corrupted tile on the board
\* that are not corrupted themselves; each is corrupted or not at random
CorruptionCandidates(b) ==
    {b.floors[a].tile_id :
        a \in {n \in DOMAIN b.floors :
                 /\ b.floors[n].tile_id \notin b.corrupted_tiles
                 /\ \E c \in DOMAIN b.floors :
                       /\ b.floors[c].tile_id \in b.corrupted_tiles
                       /\ n \in AdjacentTilePositions(c)}}

\* spread_corruption that keeps only the newly corrupted tiles
SpreadReplaces(b, chosen) == [b EXCEPT !.corrupted_tiles = chosen]
SpreadCorruption(b, chosen) == [b EXCEPT !.corrupted_tiles = @ \cup chosen]

\* Game._end_round: the board after the round's corruption
SpreadChoices(b, phase, round_ends) ==
    IF round_ends /\ phase \in {"MUTATION", "END_GAME"}
    THEN SUBSET CorruptionCandidates(b) ELSE {{}}

\* Game._check_victory_conditions visits the players in dict order and stops
\* at the first that meets a condition
EscapeCondition(pl, b) ==
    /\ pl.escape_items_collected >= ESCAPE_ITEMS_REQUIRED
    /\ pl.floor = ESCAPE_FLOOR
    /\ b.escape_exits # {}
ResearchCondition(pl) == pl.experiment_reports_collected >= EXPERIMENT_REPORTS_REQUIRED
Winners(ps, b) == {q \in DOMAIN ps : EscapeCondition(ps[q], b) \/ ResearchCondition(ps[q])}
FirstWinner(ps, b) == CHOOSE q \in Winners(ps, b) : \A r \in Winners(ps, b) : q <= r

\* a check that never finds a defeat
NoDefeatFound(ps, b) == "none"

\* Game._check_defeat_conditions: the defeat found, "none" when there is none
DefeatFound(ps, b) ==
    IF IsGameLostToCorruption(b) THEN "corruption: 70% of the map became corrupted"
    ELSE IF \A q \in DOMAIN ps : ~ps[q].is_connected
    THEN "no_players: All players disconnected"
    ELSE "none"

\* end_turn that leaves the turn with the same player
SameIndex(index, order) == index

\* the advance that skips a player
SkipOne(index, order) == (index + 2) % Len(order)
\* Game.end_turn: the index of the next player in the order
NextIndex(index, order) == (index + 1) % Len(order)

\* Game._check_victory_conditions, the collective victory: the test
\* "not self.active_anomalies and len(self.active_anomalies) > 0"
PurificationFound(anomalies) == anomalies = << >> /\ Len(anomalies) > 0

\* Game.end_turn is admitted: the caller is the current player
EndTurnAdmitted(s) == s \in Roster /\ GetCurrentPlayer = s

\* Game.end_turn through action_end_turn.  Three places raise after the turn
\* has been advanced: _reveal_escape_exits (Position built from three
\* arguments), the escape test of _check_victory_conditions
\* (player.position[0]) and the final get_current_player().name once the
\* session is finished.
ExecEndTurn(s) ==
    IF s \notin Roster THEN Refuse("end_turn", s, "Player not found")
    ELSE IF ~EndTurnAdmitted(s) THEN Refuse("end_turn", s, "Not your turn")
    ELSE LET next_index == NextIndex(current_player_index, player_order)
             round_ends == next_index = 0
             ended == [players EXCEPT ![s] = EndTurnOf(@)]
             new_phase == GetCurrentPhase(total_actions)
             reveal_raises == /\ new_phase # current_phase
                              /\ new_phase = "END_GAME"
                              /\ ~escape_exits_revealed
         IN  \E roll \in DieFaces, chosen \in SpreadChoices(board, current_phase, round_ends) :
             LET spread == SpreadCorruption(board, chosen)
                 started == StartNextTurn(ended, PlayerAt(player_order, next_index, ended),
                                          state, roll)
                 defeat == DefeatFound(started, spread)
                 victory_raises == /\ defeat = "none"
                                   /\ Winners(started, spread) # {}
                                   /\ EscapeCondition(started[FirstWinner(started, spread)],
                                                      spread)
                 victory == /\ defeat = "none"
                            /\ Winners(started, spread) # {}
                            /\ ~victory_raises
                 purified == /\ defeat = "none"
                             /\ Winners(started, spread) = {}
                             /\ PurificationFound(active_anomalies)
             IN  /\ players' = started
                 /\ current_player_index' = next_index
                 /\ turn_number' = turn_number + 1
                 /\ round_number' = IF round_ends THEN round_number + 1 ELSE round_number
                 /\ board' = spread
                 /\ current_phase' = new_phase
                 /\ state' = IF ~reveal_raises /\ (defeat # "none" \/ victory \/ purified)
                             THEN "finished" ELSE state
                 /\ defeat_reason' = IF ~reveal_raises /\ defeat # "none"
                                     THEN defeat ELSE defeat_reason
                 /\ victory_condition_met' =
                        IF reveal_raises THEN victory_condition_met
                        ELSE IF defeat # "none" THEN FALSE
                        ELSE IF victory \/ purified THEN TRUE ELSE victory_condition_met
                 /\ victory_type' = IF ~reveal_raises /\ victory THEN "research"
                                    ELSE IF ~reveal_raises /\ purified THEN "purification"
                                    ELSE victory_type
                 /\ winning_players' = IF ~reveal_raises /\ victory
                                       THEN {FirstWinner(started, spread)}
                                       ELSE IF ~reveal_raises /\ purified
                                       THEN DOMAIN started
                                       ELSE winning_players
                 /\ result' = IF \/ reveal_raises
                                 \/ victory_raises
                                 \/ defeat # "none"
                                 \/ victory
                                 \/ purified
                               THEN Result("end_turn", s, FALSE, InternalError)
                               ELSE Result("end_turn", s, TRUE, "")
                 /\ UNCHANGED <<total_actions, player_order, next_player_number,
                                players_placed_pawns, decks, escape_exits_revealed,
                                active_anomalies>>

(***************************************************************************)
(* Operations of the public API that the session itself never calls        *)
(***************************************************************************)
\* Board.corrupt_tile, called on the session's board
CorruptTile(tile_id) ==
    /\ board' = [board EXCEPT !.corrupted_tiles = @ \cup {tile_id}]
    /\ result' = Result("corrupt_tile", NoSocket, tile_id \notin board.corrupted_tiles, "")
    /\ UNCHANGED <<sessionVars, rosterVars, decks, outcomeVars>>

\* Player.update_connection_status, called on a player of the roster
UpdateConnectionStatus(s, connected) ==
    /\ s \in Roster
    /\ players' = [players EXCEPT ![s].is_connected = connected]
    /\ result' = Result("update_connection_status", s, TRUE, "")
    /\ UNCHANGED <<sessionVars, player_order, current_player_index, next_player_number,
                   players_placed_pawns, board, decks, outcomeVars>>

\* Game.get_game_state: Player.to_dict reads position.tile_x of every player
\* of the roster, which raises AttributeError for a player without a position;
\* the exception reaches the caller.  Nothing is assigned.
GetGameState ==
    /\ result' = IF \E q \in Roster : players[q].position = NoPosition
                 THEN Result("get_game_state", NoSocket, FALSE, "AttributeError")
                 ELSE Result("get_game_state", NoSocket, TRUE, "")
    /\ UNCHANGED <<sessionVars, rosterVars, board, decks, outcomeVars>>

\* Board.place_tile called with a tile built from card id for a slot
BoardPlaceTile(id, slot) ==
    IF CanPlaceTile(board, PathCardType(id), slot)
    THEN \E zone \in ZoneChoices(board, slot) :
         /\ board' = PlaceTile(board, id, slot, zone)
         /\ result' = Result("place_tile", NoSocket, TRUE, "")
         /\ UNCHANGED <<sessionVars, rosterVars, decks, outcomeVars>>
    ELSE /\ result' = Result("place_tile", NoSocket, FALSE, "")
         /\ UNCHANGED <<sessionVars, rosterVars, board, decks, outcomeVars>>

(***************************************************************************)
(* The session: every call a client can make                               *)
(***************************************************************************)
\* squares and slots a client may name in a move or an exploration
MoveTargets ==
    {Pos(INITIAL_POSITION_X, INITIAL_POSITION_Y, 1, 2, STARTING_FLOOR),
     Pos(INITIAL_POSITION_X + 1, INITIAL_POSITION_Y, 0, 1, STARTING_FLOOR),
     Pos(INITIAL_POSITION_X, INITIAL_POSITION_Y, 1, 2, STARTING_FLOOR - 1)}
ExplorePlacements ==
    {NoSlot, <<0, 0, STARTING_FLOOR>>,
     <<INITIAL_POSITION_X + 1, INITIAL_POSITION_Y + 1, STARTING_FLOOR>>}

\* the item id a client may send
ItemIds == {1}

\* the movement rolls of a step stay within a cap
RollWithin(cap) == \A q \in Roster : players[q].movement_points <= cap

Join == next_player_number <= MaxSockets /\ AddPlayer
Leave == \E s \in Sockets : RemovePlayer(s)
Start == StartGame
PlacePawn ==
    \E s \in Sockets, target \in PawnTargets : PlacePlayerPawn(s, target) /\ RollWithin(MaxRoll)'
Move == \E s \in Sockets, target \in MoveTargets : ExecMove(s, target)
Explore == \E s \in Sockets, placement \in ExplorePlacements : ExecExplore(s, placement)
Fall == \E s \in Sockets : ExecFall(s)
Meet == \E s \in Sockets, t \in Sockets : ExecMeet(s, t)
Rob == \E s \in Sockets, t \in Sockets : ExecRob(s, t)
UseStairs == \E s \in Sockets, f \in StairTargets : ExecUseStairs(s, f)
UseElevator == \E s \in Sockets : ExecUseElevator(s)
UseItem == \E s \in Sockets, item_id \in ItemIds : ExecUseItem(s, item_id)
Pass == \E s \in Sockets : ExecPass(s)
EndTurn ==
    \E s \in Sockets :
        /\ EndTurnAdmitted(s) => turn_number < MaxTurn
        /\ ExecEndTurn(s)
        /\ RollWithin(MaxRoll)'

ExecuteAction ==
    \/ Move
    \/ Explore
    \/ Fall
    \/ Meet
    \/ Rob
    \/ UseStairs
    \/ UseElevator
    \/ UseItem
    \/ Pass
    \/ EndTurn

Next ==
    \/ Join
    \/ Leave
    \/ Start
    \/ PlacePawn
    \/ ExecuteAction

Spec == Init /\ [][Next]_vars

(***************************************************************************)
(* The session with the board and connection operations of the API         *)
(***************************************************************************)
ExploreAuto == \E s \in Sockets : ExecExplore(s, NoSlot)
Corrupt == \E id \in Range([slot \in DOMAIN board.floors |-> board.floors[slot].tile_id]) :
               CorruptTile(id)
Connection == \E s \in Sockets, connected \in BOOLEAN : UpdateConnectionStatus(s, connected)

NextEnv ==
    \/ Join
    \/ Start
    \/ PlacePawn
    \/ Move
    \/ ExploreAuto
    \/ Meet
    \/ Pass
    \/ EndTurn
    \/ Corrupt
    \/ Connection

SpecEnv == Init /\ [][NextEnv]_vars

(***************************************************************************)
(* A session whose path deck opens with disordered tiles: one player can   *)
(* raise their disorder to the fall threshold within a turn                *)
(***************************************************************************)
\* cards of the deck: the fall finds the deck empty with one card fewer
FallDeckSize == 7
\* the n-th disordered card
DisorderedCard(n) == 6 * n - 4
FallDeck(n) == [i \in 1..n |-> DisorderedCard(i)]

InitFall ==
    /\ InitSession
    /\ \E n \in {FallDeckSize - 1, FallDeckSize} :
         decks = [path_tile |-> NewDeck(FallDeck(n)),
                  effect |-> NewDeck(Rotation(EffectDeckSize, 0)),
                  button |-> NewDeck(Rotation(ButtonDeckSize, 0))]

PlacePawnAnyRoll ==
    \E s \in Sockets, target \in PawnTargets : PlacePlayerPawn(s, target)
EndTurnAnyRoll ==
    \E s \in Sockets :
        /\ EndTurnAdmitted(s) => turn_number < MaxTurn
        /\ ExecEndTurn(s)

NextFall ==
    \/ Join
    \/ Start
    \/ PlacePawnAnyRoll
    \/ ExploreAuto
    \/ Fall
    \/ EndTurnAnyRoll

SpecFall == InitFall /\ [][NextFall]_vars

(***************************************************************************)
(* A long session: every turn rolls the top face and is played out with    *)
(* single-step moves, so that the action count crosses the phase           *)
(* thresholds                                                              *)
(***************************************************************************)
\* turns of the long session
LongTurns == 18
ShortTargets ==
    {Pos(INITIAL_POSITION_X, INITIAL_POSITION_Y, 1, 1, STARTING_FLOOR),
     Pos(INITIAL_POSITION_X, INITIAL_POSITION_Y, 1, 2, STARTING_FLOOR)}
TopRoll == \A q \in Roster : players[q].movement_points \in {0, MOVEMENT_DIE}

PlacePawnTopRoll ==
    \E s \in Sockets, target \in ShortTargets : PlacePlayerPawn(s, target) /\ TopRoll'
MoveShort == \E s \in Sockets, target \in ShortTargets : ExecMove(s, target)
EndTurnLong ==
    \E s \in Sockets :
        /\ EndTurnAdmitted(s) =>
              turn_number < LongTurns /\ RemainingMovement(players[s]) = 0
        /\ ExecEndTurn(s)
        /\ TopRoll'

NextLong ==
    \/ Join
    \/ Start
    \/ PlacePawnTopRoll
    \/ MoveShort
    \/ EndTurnLong

SpecLong == Init /\ [][NextLong]_vars

(***************************************************************************)
(* The board alone: Board.place_tile called directly                       *)
(***************************************************************************)
BoardSlots ==
    {<<x, y, STARTING_FLOOR>> : x \in (INITIAL_POSITION_X - 1)..(INITIAL_POSITION_X + 1),
                                y \in (INITIAL_POSITION_Y - 1)..(INITIAL_POSITION_Y + 1)}
    \cup {<<0, 0, STARTING_FLOOR>>,
          <<INITIAL_POSITION_X, INITIAL_POSITION_Y, STARTING_FLOOR + 1>>}

NextBoard ==
    \E id \in 1..PathDeckSize, slot \in BoardSlots : BoardPlaceTile(id, slot)

SpecBoard == Init /\ [][NextBoard]_vars

(***************************************************************************)
(* The roster: joining, leaving, starting and placing pawns with more      *)
(* connections                                                             *)
(***************************************************************************)
RosterSockets == 1..MaxRosterSockets

JoinRoster == next_player_number <= MaxRosterSockets /\ AddPlayer
LeaveRoster == \E s \in RosterSockets : RemovePlayer(s)
PlacePawnRoster ==
    \E s \in RosterSockets, target \in PawnTargets :
        PlacePlayerPawn(s, target) /\ RollWithin(MaxRoll)'
PassRoster == \E s \in RosterSockets : ExecPass(s)
EndTurnRoster ==
    \E s \in RosterSockets :
        /\ EndTurnAdmitted(s) => turn_number < MaxTurn
        /\ ExecEndTurn(s)
        /\ RollWithin(MaxRoll)'

NextRoster ==
    \/ JoinRoster
    \/ LeaveRoster
    \/ Start
    \/ PlacePawnRoster
    \/ PassRoster
    \/ EndTurnRoster
    \/ GetGameState

SpecRoster == Init /\ [][NextRoster]_vars

(***************************************************************************)
(* The session with the escape set up the way test_victory_conditions      *)
(* does: escape items and exits are assigned directly, the floor through   *)
(* Player.change_floor                                                     *)
(***************************************************************************)
\* player.escape_items_collected = ESCAPE_ITEMS_REQUIRED
SetEscapeItems(s) ==
    /\ s \in Roster
    /\ players' = [players EXCEPT ![s].escape_items_collected = ESCAPE_ITEMS_REQUIRED]
    /\ result' = Result("set_escape_items", s, TRUE, "")
    /\ UNCHANGED <<sessionVars, player_order, current_player_index, next_player_number,
                   players_placed_pawns, board, decks, outcomeVars>>

\* Player.change_floor
ChangeFloor(s, new_floor) ==
    /\ s \in Roster
    /\ IF new_floor < 1 \/ new_floor > 5
       THEN /\ result' = Result("change_floor", s, FALSE, "")
            /\ UNCHANGED players
       ELSE /\ players' = [players EXCEPT ![s].floor = new_floor]
            /\ result' = Result("change_floor", s, TRUE, "")
    /\ UNCHANGED <<sessionVars, player_order, current_player_index, next_player_number,
                   players_placed_pawns, board, decks, outcomeVars>>

\* board.escape_exits.append(exit_pos)
AppendEscapeExit(slot) ==
    /\ board' = [board EXCEPT !.escape_exits = @ \cup {slot}]
    /\ result' = Result("append_escape_exit", NoSocket, TRUE, "")
    /\ UNCHANGED <<sessionVars, rosterVars, decks, outcomeVars>>

EscapeItems == \E s \in Sockets : SetEscapeItems(s)
Floor == \E s \in Sockets, f \in {ESCAPE_FLOOR, FLOOR_HIGH + 1} : ChangeFloor(s, f)
EscapeExit == AppendEscapeExit(<<INITIAL_POSITION_X, INITIAL_POSITION_Y, ESCAPE_FLOOR>>)

NextEscape ==
    \/ Join
    \/ Start
    \/ PlacePawn
    \/ Pass
    \/ EndTurn
    \/ EscapeItems
    \/ Floor
    \/ EscapeExit

SpecEscape == Init /\ [][NextEscape]_vars

\* the same session with tiles corrupted from outside, so that a defeat and a
\* victory condition can hold at one check
NextOutcome ==
    \/ Join
    \/ Start
    \/ PlacePawn
    \/ EndTurn
    \/ EscapeItems
    \/ Floor
    \/ EscapeExit
    \/ Corrupt

SpecOutcome == Init /\ [][NextOutcome]_vars

(***************************************************************************)
(* Sessions whose path deck holds a stairwell and an elevator tile         *)
(***************************************************************************)
StairwellCard == 4
ElevatorCard == 5

InitSpecial ==
    /\ InitSession
    /\ \E po \in {<<StairwellCard, ElevatorCard>>, <<ElevatorCard, StairwellCard>>} :
         decks = [path_tile |-> NewDeck(po),
                  effect |-> NewDeck(Rotation(EffectDeckSize, 0)),
                  button |-> NewDeck(Rotation(ButtonDeckSize, 0))]

\* squares of the first explored tile a client may name in a move
SpecialTargets ==
    {Pos(INITIAL_POSITION_X + 1, INITIAL_POSITION_Y, 0, 0, STARTING_FLOOR),
     Pos(INITIAL_POSITION_X + 1, INITIAL_POSITION_Y, 0, 1, STARTING_FLOOR)}
MoveSpecial == \E s \in Sockets, target \in SpecialTargets : ExecMove(s, target)

NextSpecial ==
    \/ Join
    \/ Start
    \/ PlacePawn
    \/ ExploreAuto
    \/ MoveSpecial
    \/ UseStairs
    \/ UseElevator
    \/ EndTurn

SpecSpecial == InitSpecial /\ [][NextSpecial]_vars

\* the long session: the first connection explores and walks on the explored
\* tile, the second walks on the starting tile
ExploreFirst == ExecExplore(1, NoSlot)
MoveApart ==
    \/ \E target \in SpecialTargets : ExecMove(1, target)
    \/ \E target \in ShortTargets : ExecMove(2, target)

NextLift ==
    \/ Join
    \/ Start
    \/ PlacePawnTopRoll
    \/ ExploreFirst
    \/ MoveApart
    \/ UseElevator
    \/ EndTurnLong

SpecLift == InitSpecial /\ [][NextLift]_vars

(***************************************************************************)
(* A session in which the slots around the starting tile fill up: the      *)
(* deck holds basic tiles without special squares, the players explore and *)
(* walk back to the starting tile                                          *)
(***************************************************************************)
\* cards of the deck: one for each side of the starting tile and one more
SurroundDeckSize == 5
\* end_turn is not taken once turn_number has reached this value
SurroundTurns == 3
\* the n-th basic card without special squares
BasicCard(n) == 6 * n
SurroundDeck == [i \in 1..SurroundDeckSize |-> BasicCard(i)]

InitSurround ==
    /\ InitSession
    /\ decks = [path_tile |-> NewDeck(SurroundDeck),
                effect |-> NewDeck(Rotation(EffectDeckSize, 0)),
                button |-> NewDeck(Rotation(ButtonDeckSize, 0))]

\* squares on the rim of the starting tile
BackTargets ==
    {Pos(INITIAL_POSITION_X, INITIAL_POSITION_Y, 3, 0, STARTING_FLOOR),
     Pos(INITIAL_POSITION_X, INITIAL_POSITION_Y, 0, 0, STARTING_FLOOR),
     Pos(INITIAL_POSITION_X, INITIAL_POSITION_Y, 0, 3, STARTING_FLOOR)}
MoveBack == \E s \in Sockets, target \in BackTargets : ExecMove(s, target)
EndTurnSurround ==
    \E s \in Sockets :
        /\ EndTurnAdmitted(s) => turn_number < SurroundTurns
        /\ ExecEndTurn(s)
        /\ TopRoll'

NextSurround ==
    \/ Join
    \/ Start
    \/ PlacePawnTopRoll
    \/ ExploreAuto
    \/ MoveBack
    \/ EndTurnSurround

SpecSurround == InitSurround /\ [][NextSurround]_vars

(***************************************************************************)
(* A session in which Player.update_disorder is also called from outside   *)
(* the actions, with changes of either sign                                *)
(***************************************************************************)
\* the largest change handed to update_disorder; larger than MAX_DISORDER
MaxChange == 11
\* one step and one change that overshoots the range, in either direction
DisorderChanges == {-MaxChange, -1, 1, MaxChange}

\* Player.update_disorder called on the player of socket s; it returns
\* whether the disorder changed
CallUpdateDisorder(s, change) ==
    /\ s \in Roster
    /\ players' = [players EXCEPT ![s] = UpdateDisorder(@, change)]
    /\ result' = Result("update_disorder", s,
                        UpdateDisorder(players[s], change).disorder # players[s].disorder, "")
    /\ UNCHANGED <<sessionVars, player_order, current_player_index, next_player_number,
                   players_placed_pawns, board, decks, outcomeVars>>

Disorder == \E s \in Sockets, change \in DisorderChanges : CallUpdateDisorder(s, change)

EndTurnTopRoll ==
    \E s \in Sockets :
        /\ EndTurnAdmitted(s) => turn_number < MaxTurn
        /\ ExecEndTurn(s)
        /\ TopRoll'

NextDisorder ==
    \/ Join
    \/ Start
    \/ PlacePawnTopRoll
    \/ ExploreFirst
    \/ Fall
    \/ Meet
    \/ EndTurnTopRoll
    \/ Disorder

SpecDisorder == Init /\ [][NextDisorder]_vars

(***************************************************************************)
(* A session in which Player.use_movement_points is also called from       *)
(* outside the actions                                                     *)
(***************************************************************************)
\* the most points asked of use_movement_points in one call
MaxUse == 3

\* Player.use_movement_points called on the player of socket s; it returns
\* whether the points were used
CallUseMovementPoints(s, points) ==
    /\ s \in Roster
    /\ players' = [players EXCEPT ![s] = UseMovementPoints(@, points)]
    /\ result' = Result("use_movement_points", s,
                        players[s].movement_used + points <= players[s].movement_points, "")
    /\ UNCHANGED <<sessionVars, player_order, current_player_index, next_player_number,
                   players_placed_pawns, board, decks, outcomeVars>>

UsePoints == \E s \in Sockets, points \in 1..MaxUse : CallUseMovementPoints(s, points)

NextBudget ==
    \/ Join
    \/ Start
    \/ PlacePawn
    \/ MoveShort
    \/ ExploreAuto
    \/ EndTurn
    \/ UsePoints

SpecBudget == Init /\ [][NextBudget]_vars

(***************************************************************************)
(* The decks alone: Deck.draw and Deck.discard called on the path and the  *)
(* button deck of a session, a drawn card being discarded later            *)
(***************************************************************************)
DrawnDecks == {"path_tile", "button"}
\* the cards a deck was created with
DeckSizeOf(k) == IF k = "path_tile" THEN PathDeckSize ELSE ButtonDeckSize

\* Deck.draw
CallDraw(k) ==
    \E order \in DrawOrders(decks[k]) :
        /\ decks' = [decks EXCEPT ![k] = DeckAfterDraw(@, order)]
        /\ result' = Result("draw", NoSocket, DrawnCard(decks[k], order) # NoCard, k)
        /\ UNCHANGED <<sessionVars, rosterVars, board, outcomeVars>>

\* Deck.discard of a card drawn earlier
CallDiscard(k, card) ==
    /\ card \notin Range(decks[k].cards) \cup Range(decks[k].discarded)
    /\ decks' = [decks EXCEPT ![k] = DeckDiscard(@, card)]
    /\ result' = Result("discard", NoSocket, TRUE, k)
    /\ UNCHANGED <<sessionVars, rosterVars, board, outcomeVars>>

Draw == \E k \in DrawnDecks : CallDraw(k)
Discard == \E k \in DrawnDecks : \E card \in 1..DeckSizeOf(k) : CallDiscard(k, card)

NextDeck ==
    \/ Join
    \/ Draw
    \/ Discard

SpecDeck == Init /\ [][NextDeck]_vars

(***************************************************************************)
(* A session of encounters: the first player walks onto the square of the  *)
(* second, the players meet and rob, and their disorder is changed from    *)
(* outside the actions                                                     *)
(***************************************************************************)
NextMeet ==
    \/ Join
    \/ Start
    \/ PlacePawnTopRoll
    \/ MoveShort
    \/ Meet
    \/ Rob
    \/ Disorder

SpecMeet == Init /\ [][NextMeet]_vars

(***************************************************************************)
(* Leaving during play: three connections place their pawns on three       *)
(* squares of the starting tile, take turns and leave                      *)
(***************************************************************************)
LeaveTargets ==
    ShortTargets \cup {Pos(INITIAL_POSITION_X, INITIAL_POSITION_Y, 2, 1, STARTING_FLOOR)}
PlacePawnLeave ==
    \E s \in RosterSockets, target \in LeaveTargets :
        PlacePlayerPawn(s, target) /\ TopRoll'
EndTurnLeave ==
    \E s \in RosterSockets :
        /\ EndTurnAdmitted(s) => turn_number < SurroundTurns
        /\ ExecEndTurn(s)
        /\ TopRoll'

NextLeave ==
    \/ JoinRoster
    \/ Start
    \/ PlacePawnLeave
    \/ EndTurnLeave
    \/ LeaveRoster

SpecLeave == Init /\ [][NextLeave]_vars

(***************************************************************************)
(* The session with the active anomalies set from outside: an anomaly is   *)
(* appended to game.active_anomalies, and the list is cleared when the     *)
(* anomalies are purified                                                  *)
(***************************************************************************)
\* game.active_anomalies.append(card)
AppendAnomaly(card) ==
    /\ Len(active_anomalies) < 1
    /\ active_anomalies' = Append(active_anomalies, card)
    /\ result' = Result("append_anomaly", NoSocket, TRUE, "")
    /\ UNCHANGED <<sessionVars, rosterVars, board, decks, victory_condition_met,
                   victory_type, winning_players, defeat_reason, escape_exits_revealed>>

\* game.active_anomalies.clear(); success tells that there was one to clear
ClearAnomalies ==
    /\ active_anomalies' = << >>
    /\ result' = Result("clear_anomalies", NoSocket, active_anomalies # << >>, "")
    /\ UNCHANGED <<sessionVars, rosterVars, board, decks, victory_condition_met,
                   victory_type, winning_players, defeat_reason, escape_exits_revealed>>

\* the anomaly cards of the effect deck
AnomalyCards == {c \in 1..EffectDeckSize : EffectCardType(c) = "anomaly"}
Anomaly == \E card \in AnomalyCards : AppendAnomaly(card)

NextAnomaly ==
    \/ JoinRoster
    \/ Start
    \/ PlacePawnLeave
    \/ EndTurnLeave
    \/ Anomaly
    \/ ClearAnomalies

SpecAnomaly == Init /\ [][NextAnomaly]_vars

(***************************************************************************)
(* The board alone with its corruption: tiles are placed with              *)
(* Board.place_tile, corrupted with Board.corrupt_tile, and                *)
(* Board.spread_corruption is called directly                              *)
(***************************************************************************)
\* the slot that receives the tile of card i
SpreadSlots ==
    << <<INITIAL_POSITION_X + 1, INITIAL_POSITION_Y, STARTING_FLOOR>>,
       <<INITIAL_POSITION_X + 2, INITIAL_POSITION_Y, STARTING_FLOOR>>,
       <<INITIAL_POSITION_X, INITIAL_POSITION_Y + 1, STARTING_FLOOR>> >>

\* Board.spread_corruption: every candidate is corrupted or not
CallSpreadCorruption(chosen) ==
    /\ board' = SpreadCorruption(board, chosen)
    /\ result' = Result("spread_corruption", NoSocket, TRUE, "")
    /\ UNCHANGED <<sessionVars, rosterVars, decks, outcomeVars>>

PlaceSpread == \E i \in DOMAIN SpreadSlots : BoardPlaceTile(i, SpreadSlots[i])
\* corrupt_tile takes any id, that of a tile not placed included
CorruptAny == \E id \in 0..(Len(SpreadSlots) + 1) : CorruptTile(id)
Spread == \E chosen \in SUBSET CorruptionCandidates(board) : CallSpreadCorruption(chosen)

NextSpread ==
    \/ PlaceSpread
    \/ CorruptAny
    \/ Spread

SpecSpread == Init /\ [][NextSpread]_vars

(***************************************************************************)
(* The session in which nobody leaves and every current player ends their  *)
(* turn sooner or later: the end_turn of the current player is taken       *)
(* under weak fairness                                                     *)
(***************************************************************************)
\* the current player's end_turn is not taken once turn_number has reached
\* this value
RoundTurns == 7

EndTurnRound ==
    \E s \in RosterSockets :
        /\ EndTurnAdmitted(s) => turn_number < RoundTurns
        /\ ExecEndTurn(s)
        /\ TopRoll'

\* the current player calls end_turn
CurrentEndsTurn ==
    \E s \in RosterSockets :
        /\ EndTurnAdmitted(s)
        /\ turn_number < RoundTurns
        /\ ExecEndTurn(s)
        /\ TopRoll'

\* every player asks for the square of the initial tile in the row of their
\* socket id
PlacePawnRound ==
    \E s \in RosterSockets :
        /\ PlacePlayerPawn(s, Pos(INITIAL_POSITION_X, INITIAL_POSITION_Y, 1, s,
                                  STARTING_FLOOR))
        /\ TopRoll'

NextRound ==
    \/ JoinRoster
    \/ Start
    \/ PlacePawnRound
    \/ EndTurnRound

SpecRound == Init /\ [][NextRound]_vars /\ WF_vars(CurrentEndsTurn)

(***************************************************************************)
(* Properties                                                              *)
(***************************************************************************)
\* the actions execute_action dispatches
PipelineOps ==
    {"move", "explore", "fall", "meet", "rob", "use_stairs", "use_elevator", "use_item",
     "pass", "end_turn"}

\* the fields of the players that the properties compare
PlayerFields(ps) ==
    [q \in DOMAIN ps |->
        [floor |-> ps[q].floor, disorder |-> ps[q].disorder, position |-> ps[q].position,
         movement_points |-> ps[q].movement_points, movement_used |-> ps[q].movement_used,
         hand |-> ps[q].hand, items |-> ps[q].items]]

\* C1: while the session is Playing, an action sent through execute_action by
\* a roster member who is not the current player returns success:false with
\* the turn reason and changes neither the board nor any player
C1_NonCurrentPlayerRejected ==
    [][(/\ state = "playing"
        /\ result'.op \in PipelineOps
        /\ result'.actor \in Roster
        /\ result'.actor # GetCurrentPlayer)
       => (/\ result'.success = FALSE
           /\ result'.reason = "Not your turn"
           /\ board' = board
           /\ players' = players)]_vars

\* C2: when execute_action returns success:false, the internal error
\* included, the board, the decks, the players' floor, disorder, position,
\* movement and inventory, and the session's current_player_index,
\* turn_number, round_number and phase are as they were before the call
C2_FailureChangesNothing ==
    [][(result'.op \in PipelineOps /\ ~result'.success)
       => (/\ board' = board
           /\ decks' = decks
           /\ PlayerFields(players)' = PlayerFields(players)
           /\ UNCHANGED <<current_player_index, turn_number, round_number,
                          current_phase>>)]_vars

\* C3: once the session is Finished, every action sent through execute_action
\* or place_player_pawn returns success:false and changes no player and no
\* board state
C3_FinishedAcceptsNothing ==
    [][(state = "finished" /\ result'.op \in PipelineOps \cup {"place_pawn"})
       => (/\ ~result'.success
           /\ players' = players
           /\ board' = board)]_vars

\* C4: while the session is Waiting or PawnPlacement every pipeline action,
\* pass and end_turn included, is rejected, and leaves the placement turn and
\* the round and turn counters where they were
C4_PipelineClosedBeforePlaying ==
    [][(state \in {"waiting", "pawn_placement"} /\ result'.op \in PipelineOps)
       => (/\ ~result'.success
           /\ UNCHANGED <<current_player_index, turn_number, round_number>>)]_vars

\* the four orthogonal neighbours of a slot on its floor
OrthogonalNeighbours(slot) ==
    {<<slot[1] + 1, slot[2], slot[3]>>, <<slot[1] - 1, slot[2], slot[3]>>,
     <<slot[1], slot[2] + 1, slot[3]>>, <<slot[1], slot[2] - 1, slot[3]>>}

\* C5: for a tile that is not the initial tile, Board.place_tile succeeds
\* exactly when the slot is empty and one of its four orthogonal neighbours on
\* the same floor holds a tile, and a rejected placement leaves the board
\* unchanged
C5_PlaceTileOrthogonal ==
    [][\A id \in 1..PathDeckSize, slot \in BoardSlots :
         BoardPlaceTile(id, slot)
         => (/\ result'.success <=>
                  (/\ ~HasTile(board, slot)
                   /\ \E n \in OrthogonalNeighbours(slot) : HasTile(board, n))
             /\ ~result'.success => board' = board)]_vars

\* the cards of a deck and the cards drawn from it that are held elsewhere
DeckCards(d) == Range(d.cards) \cup Range(d.discarded)
PathCardsHeld == {board.floors[slot].tile_id : slot \in DOMAIN board.floors} \ {INITIAL_TILE_ID}
EffectCardsHeld == UNION {players[q].hand \cup players[q].items : q \in Roster}
PathCards == DeckCards(decks.path_tile) \cup PathCardsHeld
EffectCards == DeckCards(decks.effect) \cup EffectCardsHeld
PathCardCount ==
    Len(decks.path_tile.cards) + Len(decks.path_tile.discarded) + Cardinality(PathCardsHeld)
EffectCardCount ==
    Len(decks.effect.cards) + Len(decks.effect.discarded) + Cardinality(EffectCardsHeld)

\* C6: no pipeline action duplicates or loses a card: draw pile, discard pile
\* and the cards held on the board, in hands and in inventories are the same
\* cards after the action as before it
C6_CardsConserved ==
    [][result'.op \in PipelineOps
       => (/\ PathCards' = PathCards
           /\ PathCardCount' = PathCardCount
           /\ EffectCards' = EffectCards
           /\ EffectCardCount' = EffectCardCount
           /\ DeckCards(decks.button)' = DeckCards(decks.button))]_vars

\* C7: in every reachable state the phase is the phase function of
\* total_actions
C7_PhaseFollowsActions == current_phase = GetCurrentPhase(total_actions)

\* an end condition of _check_game_end_conditions holds
EndConditionHolds == DefeatFound(players, board) # "none" \/ Winners(players, board) # {}

\* C8: when a successful move, explore, fall, meet, rob, use_item or pass of
\* the current player leaves a victory or defeat condition true, the session
\* is Finished when the action returns
C8_EndConditionsAfterEveryAction ==
    [][(/\ state = "playing"
        /\ result'.op \in {"move", "explore", "fall", "meet", "rob", "use_item", "pass"}
        /\ result'.actor = GetCurrentPlayer
        /\ result'.success
        /\ EndConditionHolds')
       => state' = "finished"]_vars

\* C9: a Fall by the current player in Playing with disorder at the threshold
\* or above and a floor above the first returns success:true, one floor lower
\* and with one disorder less
C9_FallAlwaysSucceeds ==
    [][\A s \in Roster :
         (/\ state = "playing"
          /\ IsPlayerTurn(s)
          /\ players[s].disorder >= DISORDER_FALL_THRESHOLD
          /\ players[s].floor > 1
          /\ result'.op = "fall"
          /\ result'.actor = s)
         => (/\ result'.success
             /\ players'[s].floor = players[s].floor - 1
             /\ players'[s].disorder = players[s].disorder - 1)]_vars

\* C10: in every Playing state every player of the roster has a position
C10_PlayingMeansAllPlaced ==
    state = "playing" => \A q \in Roster : players[q].position # NoPosition

\* C11: in PawnPlacement and Playing, also after players have left,
\* current_player_index is an index of player_order and the player at that
\* index is in the roster: get_current_player returns a roster member
C11_CurrentPlayerWellDefined ==
    state \in {"pawn_placement", "playing"}
    => (/\ player_order # << >>
        /\ 0 <= current_player_index
        /\ current_player_index < Len(player_order)
        /\ player_order[current_player_index + 1] \in Roster
        /\ GetCurrentPlayer \in Roster)

\* a player beyond the first of the order has just left a started session that
\* goes on with the last index of the order current
C11_LeftWhileLastWasCurrent ==
    /\ state \in {"pawn_placement", "playing"}
    /\ result.op = "remove_player"
    /\ result.success
    /\ Len(player_order) = 2
    /\ current_player_index = 1

\* C12: a successful end_turn by the current player moves
\* current_player_index one step round the order, adds 1 to turn_number, and
\* adds 1 to round_number exactly when the index came back to 0; an end_turn
\* by anyone else is rejected and changes none of the three
C12_EndTurnAdvances ==
    [][result'.op = "end_turn"
       => (/\ (result'.actor = GetCurrentPlayer /\ result'.success)
               => (/\ current_player_index' =
                          (current_player_index + 1) % Len(player_order)
                   /\ turn_number' = turn_number + 1
                   /\ round_number' =
                          IF current_player_index' = 0 THEN round_number + 1
                          ELSE round_number)
           /\ result'.actor # GetCurrentPlayer
               => (/\ ~result'.success
                   /\ UNCHANGED <<current_player_index, turn_number,
                                  round_number>>))]_vars

\* a successful end_turn has just closed the second round of a session
C12_RoundClosed ==
    /\ state = "playing"
    /\ result.op = "end_turn"
    /\ result.success
    /\ current_player_index = 0
    /\ round_number = 3

\* the defeat reason _end_game_defeat records for the corruption defeat
CorruptionDefeatReason == "corruption: 70% of the map became corrupted"

\* corrupted tiles / placed tiles is at or above 0.70
CorruptionAtLimit ==
    /\ Cardinality(DOMAIN board.floors) > 0
    /\ 100 * Cardinality(board.corrupted_tiles) >= 70 * Cardinality(DOMAIN board.floors)

\* the step is an end_turn that reached _check_game_end_conditions: the turn
\* was advanced and _reveal_escape_exits was not entered
EndConditionCheckRan ==
    /\ result'.op = "end_turn"
    /\ turn_number' = turn_number + 1
    /\ ~(current_phase' = "END_GAME" /\ current_phase # "END_GAME"
          /\ ~escape_exits_revealed)

\* C13: an end-condition check that runs with the corruption percentage at
\* or above 0.70 makes the session Finished, leaves victory_condition_met
\* false and records the corruption defeat reason; below 0.70 it records no
\* corruption defeat
C13_CorruptionDefeat ==
    [][EndConditionCheckRan
       => IF CorruptionAtLimit'
          THEN /\ state' = "finished"
               /\ victory_condition_met' = FALSE
               /\ defeat_reason' = CorruptionDefeatReason
          ELSE defeat_reason' # CorruptionDefeatReason]_vars

\* an end_turn found the corruption defeat on a board of several tiles
C13_DefeatOnGrownBoard ==
    /\ result.op = "end_turn"
    /\ state = "finished"
    /\ defeat_reason = CorruptionDefeatReason
    /\ Cardinality(DOMAIN board.floors) >= 2

\* the player stands on the tile of a revealed escape exit, on its floor
OnEscapeExit(pl, b) ==
    /\ pl.position # NoPosition
    /\ <<pl.position.tile_x, pl.position.tile_y, pl.floor>> \in b.escape_exits

\* C14: when an end-condition check runs with no defeat condition true and a
\* player who has 3 escape items, is on floor 5 and stands on a revealed
\* escape exit, the session becomes Finished with victory_condition_met
\* true, victory_type "escape" and that player among the winners
C14_EscapeVictory ==
    [][\A q \in Roster :
         (/\ EndConditionCheckRan
          /\ DefeatFound(players', board') = "none"
          /\ players[q].escape_items_collected >= 3
          /\ players[q].floor = 5
          /\ OnEscapeExit(players[q], board))
         => (/\ state' = "finished"
             /\ victory_condition_met' = TRUE
             /\ victory_type' = "escape"
             /\ q \in winning_players')]_vars

\* the tile of the slot a player stands on, on the player's floor
StandsOn(pl, b, type) ==
    /\ pl.position # NoPosition
    /\ HasTile(b, <<pl.position.tile_x, pl.position.tile_y, pl.floor>>)
    /\ b.floors[<<pl.position.tile_x, pl.position.tile_y, pl.floor>>].tile_type = type

\* C15: use_stairs by a player who stands on a stairwell tile, to a floor of
\* the building one above or below the player's, succeeds: the player is on
\* the target floor and the slot of the stairwell holds no tile any more
C15_StairsSingleUse ==
    [][\A s \in Sockets, f \in StairTargets :
         (/\ s \in Roster
          /\ StandsOn(players[s], board, "stairwell")
          /\ ValidFloor(f)
          /\ Abs(f - players[s].floor) = 1
          /\ ExecUseStairs(s, f))
         => (/\ result'.success
             /\ players'[s].floor = f
             /\ ~HasTile(board', <<players[s].position.tile_x,
                                    players[s].position.tile_y, players[s].floor>>))]_vars

\* C16: in the Mutation or EndGame phase, a use_elevator that fails for a
\* player who stands on an elevator tile, with a button card to draw (the
\* malfunction), leaves the player's floor and position unchanged and adds
\* the drawn button card to the discard pile of the button deck
C16_ElevatorMalfunction ==
    [][\A s \in Sockets :
         (/\ s \in Roster
          /\ current_phase \in {"MUTATION", "END_GAME"}
          /\ StandsOn(players[s], board, "elevator")
          /\ DeckCards(decks.button) # {}
          /\ ExecUseElevator(s)
          /\ ~result'.success)
         => (/\ players'[s].floor = players[s].floor
             /\ players'[s].position = players[s].position
             /\ Len(decks'.button.discarded) = Len(decks.button.discarded) + 1)]_vars

\* C17: get_game_state returns its snapshot without raising in every
\* reachable state of the session (Waiting, PawnPlacement before all pawns
\* are placed, Playing, Finished) and changes no game state
C17_SnapshotNeverRaises ==
    [][result'.op = "get_game_state"
       => (/\ result'.success
           /\ UNCHANGED <<sessionVars, rosterVars, board, decks, outcomeVars>>)]_vars

\* a slot of the board that holds no tile
FreeSlot(b, slot) == InBoard(slot[1], slot[2]) /\ ~HasTile(b, slot)

\* the first free slot East, West, South, North of the tile of position p
FirstFreeNeighbour(b, p) ==
    IF FreeSlot(b, <<p.tile_x + 1, p.tile_y, p.floor>>)
    THEN <<p.tile_x + 1, p.tile_y, p.floor>>
    ELSE IF FreeSlot(b, <<p.tile_x - 1, p.tile_y, p.floor>>)
    THEN <<p.tile_x - 1, p.tile_y, p.floor>>
    ELSE IF FreeSlot(b, <<p.tile_x, p.tile_y + 1, p.floor>>)
    THEN <<p.tile_x, p.tile_y + 1, p.floor>>
    ELSE IF FreeSlot(b, <<p.tile_x, p.tile_y - 1, p.floor>>)
    THEN <<p.tile_x, p.tile_y - 1, p.floor>>
    ELSE NoSlot

\* C18: in Playing, an explore without a placement position by the current
\* player, who has disorder below 6 and a movement point left, succeeds when
\* the path deck can yield a card and a slot East, West, South or North of
\* the player's tile is free, and places exactly one new tile, in the first
\* such slot in that order; when none of the four is free it fails without
\* drawing a card
C18_ExploreAutoPlacement ==
    [][\A s \in Sockets :
         (/\ state = "playing"
          /\ s \in Roster
          /\ IsPlayerTurn(s)
          /\ players[s].position # NoPosition
          /\ players[s].disorder < 6
          /\ players[s].movement_points - players[s].movement_used >= 1
          /\ ExecExplore(s, NoSlot))
         => IF FirstFreeNeighbour(board, players[s].position) = NoSlot
            THEN /\ ~result'.success
                 /\ decks' = decks
                 /\ board' = board
            ELSE DeckCards(decks.path_tile) # {}
                 => (/\ result'.success
                     /\ DOMAIN board'.floors =
                            DOMAIN board.floors
                               \cup {FirstFreeNeighbour(board, players[s].position)}
                     /\ Cardinality(DOMAIN board'.floors) =
                            Cardinality(DOMAIN board.floors) + 1)]_vars

\* an explore found the four slots around the player's tile taken while the
\* deck still held a card
C18_NoFreeSlot ==
    /\ result.op = "explore"
    /\ ~result.success
    /\ result.reason = "No adjacent positions available for tile placement"
    /\ decks.path_tile.cards # << >>

\* every square a client names in a move in one of the sessions
AllMoveTargets == MoveTargets \cup ShortTargets \cup SpecialTargets \cup BackTargets

\* the Manhattan distance of two squares in absolute coordinates
Manhattan(p, q) ==
    Abs((q.tile_x * TILE_SIDE + q.sub_x) - (p.tile_x * TILE_SIDE + p.sub_x))
       + Abs((q.tile_y * TILE_SIDE + q.sub_y) - (p.tile_y * TILE_SIDE + p.sub_y))

\* what C19 asks of a move of socket s to target
MoveAsClaimed(s, target) ==
    LET pl == players[s]
        budget == pl.movement_points - pl.movement_used
        ok == /\ IsPositionMovable(board, target)
              /\ target # pl.position
              /\ Manhattan(pl.position, target) <= budget
    IN  /\ result'.success <=> ok
        /\ ok => /\ players'[s].position = target
                 /\ players'[s].movement_points - players'[s].movement_used
                       = budget - Manhattan(pl.position, target)
        /\ ~ok => /\ players'[s].position = pl.position
                  /\ players'[s].movement_points - players'[s].movement_used = budget

\* C19: a move by the current player, who stands on the board, succeeds
\* exactly when the target square is movable, is not the player's square and
\* lies within the remaining movement budget by Manhattan distance in
\* absolute coordinates; on success the budget drops by that distance and the
\* player stands on the target, on failure position and budget are unchanged
C19_MoveWithinBudget ==
    [][\A s \in Sockets, target \in AllMoveTargets :
         (/\ s \in Roster
          /\ IsPlayerTurn(s)
          /\ players[s].position # NoPosition
          /\ result'.op = "move"
          /\ result'.actor = s
          /\ ExecMove(s, target))
         => MoveAsClaimed(s, target)]_vars

\* a move was carried out, was charged and left budget behind
C19_MovedWithinBudget ==
    /\ state = "playing"
    /\ result.op = "move"
    /\ result.success
    /\ players[result.actor].position \in AllMoveTargets
    /\ players[result.actor].movement_used >= 1
    /\ players[result.actor].movement_used < players[result.actor].movement_points

\* C20: whatever actions and update_disorder calls, with changes of either
\* sign, have been made, every player's disorder lies in 0..MAX_DISORDER
C20_DisorderInRange ==
    \A q \in Roster : players[q].disorder \in 0..MAX_DISORDER

\* update_disorder was called on a player at MAX_DISORDER and left the
\* disorder where it was
C20_HeldAtMaximum ==
    /\ result.op = "update_disorder"
    /\ ~result.success
    /\ result.actor \in Roster
    /\ players[result.actor].disorder = MAX_DISORDER

\* C21: every player has 0 <= movement_used <= movement_points in every
\* state, so the remaining movement is never negative; a use_movement_points
\* call that would take the used points above the granted points returns
\* false and changes nothing
C21_MovementBudget ==
    /\ [](\A q \in Roster :
            /\ 0 <= players[q].movement_used
            /\ players[q].movement_used <= players[q].movement_points
            /\ players[q].movement_points - players[q].movement_used >= 0)
    /\ [][\A s \in Sockets, points \in 1..MaxUse :
            (/\ s \in Roster
             /\ players[s].movement_used + points > players[s].movement_points
             /\ result'.op = "use_movement_points"
             /\ CallUseMovementPoints(s, points))
            => (/\ ~result'.success
                /\ players' = players)]_vars

\* use_movement_points refused a call on a player whose budget was partly used
C21_RefusedOverdraw ==
    /\ result.op = "use_movement_points"
    /\ ~result.success
    /\ result.actor \in Roster
    /\ players[result.actor].movement_used > 0
    /\ players[result.actor].movement_used < players[result.actor].movement_points

\* what C22 asks of a draw that takes deck d to deck e
DrawAsClaimed(d, e, returned) ==
    IF d.cards # << >>
    THEN /\ returned
         /\ e.cards = Tail(d.cards)
         /\ e.discarded = d.discarded
    ELSE IF d.discarded # << >>
    THEN /\ returned
         /\ e.discarded = << >>
         /\ Len(e.cards) = Len(d.discarded) - 1
         /\ Range(e.cards) \subseteq Range(d.discarded)
         /\ Cardinality(Range(e.cards)) = Cardinality(Range(d.discarded)) - 1
    ELSE /\ ~returned
         /\ e = d

\* C22: Deck.draw returns a card whenever the draw pile or the discard pile
\* holds one - with an empty draw pile it first makes the whole discard pile
\* the draw pile, leaving the discard pile empty - and returns no card,
\* leaving the deck as it was, only when both piles are empty
C22_DrawRecycles ==
    [][\A k \in DrawnDecks :
         (/\ result'.op = "draw"
          /\ result'.reason = k
          /\ CallDraw(k))
         => DrawAsClaimed(decks[k], decks'[k], result'.success)]_vars

\* a draw turned a discard pile of several cards into the draw pile: what is
\* left of the button deck is not the end of the order it was created in
C22_DrewFromRecycledPile ==
    /\ result.op = "draw"
    /\ result.success
    /\ result.reason = "button"
    /\ decks.button.discarded = << >>
    /\ decks.button.cards # << >>
    /\ Head(decks.button.cards) # ButtonDeckSize - Len(decks.button.cards) + 1

CoLocated(s, t) ==
    /\ players[s].floor = players[t].floor
    /\ players[s].position = players[t].position

\* C24: a rob of a co-located player who holds cards, by a robber whose hand
\* has room, moves exactly one card from the target's hand to the robber's
\* and raises the robber's disorder by 1; a rob that fails has one of the
\* causes target not co-located, target's hand empty, robber's hand full, and
\* leaves both hands and both disorder values as before
C24_RobMovesOneCard ==
    [][\A s \in Sockets : \A t \in Sockets \ {s} :
         (/\ s \in Roster
          /\ t \in Roster
          /\ result'.op = "rob"
          /\ result'.actor = s
          /\ ExecRob(s, t))
         => IF result'.success
            THEN /\ \E c \in players[t].hand :
                       /\ players'[t].hand = players[t].hand \ {c}
                       /\ players'[s].hand = players[s].hand \cup {c}
                 /\ players'[s].disorder = Min(MAX_DISORDER, players[s].disorder + 1)
            ELSE /\ \/ ~CoLocated(s, t)
                    \/ players[t].hand = {}
                    \/ Cardinality(players[s].hand) >= HAND_SIZE_LIMIT
                 /\ players'[s].hand = players[s].hand
                 /\ players'[t].hand = players[t].hand
                 /\ players'[s].disorder = players[s].disorder
                 /\ players'[t].disorder = players[t].disorder]_vars

\* C25: a meet of two players succeeds exactly when they are on the same
\* floor and the same position and their disorder levels differ by at most
\* 2; on success the disorder of each drops by 1, not below 0; on failure the
\* state of neither changes
C25_MeetRule ==
    [][\A s \in Sockets : \A t \in Sockets \ {s} :
         (/\ s \in Roster
          /\ t \in Roster
          /\ result'.op = "meet"
          /\ result'.actor = s
          /\ ExecMeet(s, t))
         => IF CoLocated(s, t) /\ Abs(players[s].disorder - players[t].disorder) <= 2
            THEN /\ result'.success
                 /\ players'[s] = [players[s] EXCEPT !.disorder = Max(0, @ - 1)]
                 /\ players'[t] = [players[t] EXCEPT !.disorder = Max(0, @ - 1)]
            ELSE /\ ~result'.success
                 /\ players' = players]_vars

\* two players standing on the same square of the board met, one of them
\* already at disorder 0
C25_MetOnSameSquare ==
    /\ result.op = "meet"
    /\ result.success
    /\ result.actor \in Roster
    /\ \E t \in Roster \ {result.actor} :
          /\ players[t].position # NoPosition
          /\ CoLocated(result.actor, t)
          /\ players[t].disorder = 0
          /\ players[result.actor].disorder > 0

\* a player meets the escape condition: the items, the top floor, an exit
EscapeConditionMet == \E q \in Roster :
    /\ players[q].escape_items_collected >= 3
    /\ players[q].floor = 5
    /\ OnEscapeExit(players[q], board)

\* a defeat condition holds: the corruption limit or nobody connected
DefeatConditionMet ==
    \/ CorruptionAtLimit
    \/ \A q \in Roster : ~players[q].is_connected

\* C26: when a defeat condition and a victory condition both hold at an
\* end-condition check, the defeat is recorded: the session is Finished with
\* a defeat reason, victory_condition_met stays false and no winning players
\* are recorded
C26_DefeatBeforeVictory ==
    [][(/\ EndConditionCheckRan
        /\ DefeatConditionMet'
        /\ EscapeConditionMet')
       => (/\ state' = "finished"
           /\ defeat_reason' # "none"
           /\ victory_condition_met' = FALSE
           /\ winning_players' = {})]_vars

\* an end_turn recorded a defeat while a player met the escape condition
C26_DefeatWithEscapeReady ==
    /\ result.op = "end_turn"
    /\ state = "finished"
    /\ defeat_reason # "none"
    /\ EscapeConditionMet

\* C27: every player who has a position has a floor field equal to the floor
\* stored in the position
C27_FloorMatchesPosition ==
    \A q \in Roster :
        players[q].position # NoPosition => players[q].floor = players[q].position.floor

\* C28: the step that takes the phase into END_GAME reveals the escape exits
\* - escape_exits_revealed is true after it and every recorded exit is on
\* floor 5 - and the end_turn that makes the step completes successfully;
\* once revealed, the exits stay revealed
C28_EndGameRevealsExits ==
    [][/\ (current_phase # "END_GAME" /\ current_phase' = "END_GAME")
          => (/\ escape_exits_revealed'
              /\ \A slot \in board'.escape_exits : slot[3] = 5
              /\ result'.op = "end_turn"
              /\ result'.success)
       /\ escape_exits_revealed => escape_exits_revealed']_vars

\* the player who follows socket s in the turn order, the first after the last
FollowerOf(s) == player_order[(IndexOf(player_order, s) % Len(player_order)) + 1]

\* C29: when a player leaves during Playing, the current player is unchanged
\* if the leaver was not the current player, and is the player who followed
\* the leaver in the turn order (the first player after the last) if the
\* leaver was the current player
C29_LeaveKeepsTurns ==
    [][\A s \in RosterSockets :
         (/\ state = "playing"
          /\ s \in Roster
          /\ s \in Range(player_order)
          /\ Cardinality(Roster) >= 2
          /\ GetCurrentPlayer \in Roster
          /\ result'.op = "remove_player"
          /\ result'.actor = s
          /\ RemovePlayer(s))
         => IF GetCurrentPlayer # s
            THEN GetCurrentPlayer' = GetCurrentPlayer
            ELSE GetCurrentPlayer' = FollowerOf(s)]_vars

\* C30: in every Playing state exactly one player has turn_active true, and
\* that player is the current player
C30_OneActiveTurn ==
    state = "playing"
       => {q \in Roster : players[q].turn_active} = {GetCurrentPlayer}


\* a turn starts in Playing: the last pawn is placed, or an end_turn succeeds
TurnStartsInPlaying ==
    /\ result'.success
    /\ state' = "playing"
    /\ \/ result'.op = "place_pawn" /\ state = "pawn_placement"
       \/ result'.op = "end_turn" /\ state = "playing"

\* C31: whenever a turn starts in Playing (on the transition from pawn
\* placement and after every successful end_turn) the new current player has
\* turn_active true and a freshly rolled budget of 1..6 with nothing used,
\* and every other player has turn_active false and no budget
C31_TurnStart ==
    [][TurnStartsInPlaying
         => /\ GetCurrentPlayer' \in DOMAIN players'
            /\ players'[GetCurrentPlayer'].turn_active
            /\ players'[GetCurrentPlayer'].movement_points \in 1..MOVEMENT_DIE
            /\ players'[GetCurrentPlayer'].movement_used = 0
            /\ \A q \in DOMAIN players' \ {GetCurrentPlayer'} :
                  /\ ~players'[q].turn_active
                  /\ players'[q].movement_points = 0]_vars

\* a second turn of Playing has started for a player other than the first
C31_SecondTurnStarted ==
    /\ state = "playing"
    /\ result.op = "end_turn"
    /\ result.success
    /\ turn_number >= 2
    /\ GetCurrentPlayer \in Roster
    /\ players[GetCurrentPlayer].turn_active
    /\ players[GetCurrentPlayer].movement_points >= 1


\* no two players of the roster ps stand on the same cell
NoSharedCell(ps) ==
    \A q \in DOMAIN ps : \A r \in DOMAIN ps \ {q} :
        ps[q].position # NoPosition => ps[q].position # ps[r].position

\* C32: a pawn placement succeeds only for the current player who has not
\* placed yet, only on a movable cell of the initial tile that no other
\* player occupies, so no two players share a cell when Playing begins; a
\* rejected placement changes nothing
C32_PawnPlacement ==
    [][\A s \in RosterSockets :
         (result'.op = "place_pawn" /\ result'.actor = s)
         => IF result'.success
            THEN /\ state = "pawn_placement"
                 /\ GetCurrentPlayer = s
                 /\ s \notin players_placed_pawns
                 /\ players'[s].position # NoPosition
                 /\ TileSlotOf(players'[s].position) = InitialSlot
                 /\ IsPositionMovable(board, players'[s].position)
                 /\ \A q \in Roster \ {s} : players[q].position # players'[s].position
                 /\ state' = "playing" => NoSharedCell(players')
            ELSE UNCHANGED <<sessionVars, rosterVars, board, decks, outcomeVars>>]_vars

\* Playing has just begun with three pawns on the initial tile
C32_ThreePawnsPlaced ==
    /\ state = "playing"
    /\ result.op = "place_pawn"
    /\ result.success
    /\ Cardinality(Roster) = 3
    /\ \A q \in Roster : players[q].position # NoPosition


\* C33: once a tile is in the corrupted set (through corrupt_tile or
\* spread_corruption) none of its squares is movable, so no move onto a
\* square of that tile succeeds
C33_NoMoveOntoCorrupted ==
    [][\A s \in Sockets :
         (/\ result'.op = "move"
          /\ result'.actor = s
          /\ result'.success
          /\ players'[s].position # NoPosition
          /\ HasTile(board, TileSlotOf(players'[s].position)))
         => /\ board.floors[TileSlotOf(players'[s].position)].tile_id
                  \notin board.corrupted_tiles
            /\ \A slot \in DOMAIN board.floors :
                  board.floors[slot].tile_id \in board.corrupted_tiles
                     => \A c \in Cells :
                           ~IsPositionMovable(board,
                                Pos(slot[1], slot[2], c[1], c[2], slot[3]))]_vars


C35_PurificationVictory ==
    [][(/\ result.op = "clear_anomalies"
        /\ result.success
        /\ active_anomalies = << >>
        /\ state = "playing"
        /\ EndConditionCheckRan
        /\ DefeatFound(players', board') = "none")
       => (/\ state' = "finished"
           /\ victory_condition_met'
           /\ victory_type' = "purification"
           /\ winning_players' = DOMAIN players')]_vars


\* the player actions that count toward phase progression
CountedOps ==
    {"move", "explore", "fall", "meet", "rob", "use_stairs", "use_elevator", "use_item"}

\* C36: total_actions increases by exactly 1 on every successful player
\* action other than pass and end_turn, and is unchanged by every failed
\* action
C36_ActionsCounted ==
    [][result'.op \in CountedOps
         => IF result'.success
            THEN total_actions' = total_actions + 1
            ELSE total_actions' = total_actions]_vars


\* the position p names a tile of the board and a movable square of it
OnMovableSquare(b, p) ==
    /\ HasTile(b, TileSlotOf(p))
    /\ <<p.sub_x, p.sub_y>> \in MovablePositions(b.floors[TileSlotOf(p)].tile_id)

\* C37: in every Playing state the position of every positioned player names
\* a tile present on the board at (tile_x, tile_y, floor) and a square of
\* that tile's movable set
C37_PositionsOnBoard ==
    state = "playing"
       => \A q \in Roster :
             players[q].position # NoPosition => OnMovableSquare(board, players[q].position)

\* a player has entered a tile that has walls
C37_EnteredWalledTile ==
    /\ state = "playing"
    /\ result.op = "explore"
    /\ result.success
    /\ \E q \in Roster :
          /\ players[q].position # NoPosition
          /\ HasTile(board, TileSlotOf(players[q].position))
          /\ CardWalls(board.floors[TileSlotOf(players[q].position)].tile_id) # {}


\* slot n lies next to slot c on the same floor, diagonals included
NextOnFloor(n, c) ==
    /\ n # c
    /\ n[3] = c[3]
    /\ n[1] - c[1] \in -1..1
    /\ n[2] - c[2] \in -1..1

C39_EveryTileInZoneB ==
    /\ \A slot \in DOMAIN board.floors : board.floors[slot].zone = "B"
    /\ \A key \in DOMAIN board.zone_assignments : board.zone_assignments[key] = "B"

\* explorations have placed at least two tiles beside the initial one
C39_TilesExplored ==
    /\ state = "playing"
    /\ result.op = "explore"
    /\ result.success
    /\ Cardinality(DOMAIN board.floors) >= 3


\* Playing, with enough turns left for every player to be reached
RoundCanComplete ==
    /\ state = "playing"
    /\ turn_number + Len(player_order) <= RoundTurns + 1

\* in Playing the turns and rounds counted so far place the current player:
\* every full cycle of player_order has added exactly 1 to round_number
CycleCounted ==
    state = "playing"
       => turn_number = (round_number - 1) * Len(player_order) + current_player_index + 1

\* a successful end_turn in Playing hands the turn to the next player of
\* player_order, the first after the last, and adds 1 to round_number exactly
\* when the order wraps
StrictRoundRobin ==
    (state = "playing" /\ result'.op = "end_turn" /\ result'.success)
       => /\ GetCurrentPlayer' = FollowerOf(GetCurrentPlayer)
          /\ player_order' = player_order
          /\ round_number' = IF current_player_index' = 0
                             THEN round_number + 1 ELSE round_number

\* C40: with no player leaving and the session not finishing, when every
\* current player eventually calls end_turn, every player of the roster
\* becomes the current player again within len(player_order) turn ends, in
\* the order of player_order, and round_number grows by exactly 1 per full
\* cycle
C40_RoundRobin ==
    /\ []CycleCounted
    /\ [][StrictRoundRobin]_vars
    /\ \A q \in RosterSockets :
          (RoundCanComplete /\ q \in Roster) ~> (GetCurrentPlayer = q)

\* three players have been through two full cycles
C40_TwoCyclesPlayed ==
    /\ state = "playing"
    /\ Cardinality(Roster) = 3
    /\ result.op = "end_turn"
    /\ result.success
    /\ round_number >= 3

====
